---------------------------- MODULE Spec2Model ----------------------------
(***************************************************************************)
(* A model of epubkit's resource resolver: PackageDocument.getResource     *)
(* with its per-path cache of pending resolutions (src/lib/opf, found in   *)
(* src/src/lib/rendition.ts), createResourceFromItem and the three         *)
(* resource classes of src/src/lib/resource.ts, and the container index    *)
(* of src/unnamed/part_000.                                                *)
(*                                                                         *)
(* Strings that the code parses (URLs, attribute values, stylesheet text)  *)
(* are sequences of tokens: a token is a run of characters the code never  *)
(* splits ("c/", "f.css", "url(", "@import ").  A literal substring search *)
(* of the code is a subsequence search on the tokens' pieces: "../" is the *)
(* one token whose text holds another token's, "." followed by "./".       *)
(***************************************************************************)
EXTENDS Integers, Sequences, FiniteSets, TLC

VARIABLES
    manifest,          \* PackageDocument.manifest.items: Seq of [id, href, mime]
    dirtree,           \* OCFZip.dirtree: pathname -> archive entry
    cached_resources,  \* PackageDocument.#cached_resources: pathname -> promise id
    tasks,             \* the promises createResourceFromItem has returned, by id,
                       \* each with the resource it builds
    handles,           \* the host's object URLs: handle number -> [owner, content, revoked]
    returned,          \* the (pathname, promise) pairs getResource has returned
    io,                \* the archive reads started and the parses done, per pathname
    env,               \* the environment: its calls so far and the result of its last one
    pkg                \* the container's archive and, from getPackageDocument() on,
                       \* the PackageDocument under construction: its fields so far

vars == <<manifest, dirtree, cached_resources, tasks, handles, returned, io, env, pkg>>

-----------------------------------------------------------------------------
(* Bounds of the model *)

\* top-level getResource calls the environment makes
MaxCalls == 2
\* getURL / getBlob / clean / document mutations the environment makes
MaxOps == 3

-----------------------------------------------------------------------------
(* Strings *)

\* the element of a singleton; The({e : x \in {v}}) is `const x = v; e`, with v
\* computed once
The(S) == CHOOSE r \in S : TRUE

RECURSIVE Cat(_)
\* the characters of a token sequence as one string
Cat(toks) == IF toks = <<>> THEN "" ELSE Head(toks) \o Cat(Tail(toks))

\* tokens that start an absolute http URL, with the origin each names
SchemeTok == {"http://p/", "http://x/"}
OriginOfScheme(tok) == IF tok = "http://p/" THEN "http://p" ELSE "http://x"

\* directory segments
DirTok == {"c/", "d/", "./", "../"}
DirName(tok) == IF tok = "c/" THEN "c" ELSE IF tok = "d/" THEN "d" ELSE tok

\* the start of a query or of a fragment
SuffixTok == {"?v", "#s"}

\* URL.createObjectURL's n-th result, "blob:http://host/<uuid n>"
HandleStr(n) == "blob:" \o ToString(n)
IsHandleTok(tok) == \E n \in 1..9 : tok = HandleStr(n)

\* the origin of the page that hosts the reader, where its blob: URLs live
HostOrigin == "http://host"

-----------------------------------------------------------------------------
(* new URL(url, base): WHATWG resolution on token sequences.  A URL is     *)
(* [origin, path, suffix]: path is the pathname's segments, the last one   *)
(* the file ("" for a directory), suffix the query and fragment.           *)

StripFragment(suffix) ==
    IF suffix = "#s" THEN "" ELSE IF suffix = "?v#s" THEN "?v" ELSE suffix

RECURSIVE WalkPath(_, _, _)
\* the path a relative reference's tokens lead to from directory `dirs`
WalkPath(toks, dirs, file) ==
    IF toks = <<>> THEN [path |-> Append(dirs, file), suffix |-> ""]
    ELSE LET t == Head(toks) IN
         IF t \in SuffixTok
         THEN [path |-> Append(dirs, file), suffix |-> Cat(toks)]
         ELSE IF t = "./" THEN WalkPath(Tail(toks), dirs, "")
         ELSE IF t = "../"
         THEN WalkPath(Tail(toks),
                       IF dirs = <<>> THEN dirs ELSE SubSeq(dirs, 1, Len(dirs) - 1),
                       "")
         ELSE IF t \in DirTok
         THEN WalkPath(Tail(toks), Append(dirs, file \o DirName(t)), "")
         ELSE WalkPath(Tail(toks), dirs, file \o t)

NewURL(url, base) ==
    IF url = <<>>
    THEN [origin |-> base.origin, path |-> base.path,
          suffix |-> StripFragment(base.suffix)]
    ELSE IF Head(url) \in SchemeTok
    THEN LET w == WalkPath(Tail(url), <<>>, "")
         IN  [origin |-> OriginOfScheme(Head(url)), path |-> w.path,
              suffix |-> w.suffix]
    ELSE IF IsHandleTok(Head(url))
    THEN [origin |-> HostOrigin, path |-> <<Cat(url)>>, suffix |-> ""]
    ELSE IF Head(url) = "#s"
    THEN [origin |-> base.origin, path |-> base.path,
          suffix |-> StripFragment(base.suffix) \o Cat(url)]
    ELSE IF Head(url) = "?v"
    THEN [origin |-> base.origin, path |-> base.path, suffix |-> Cat(url)]
    ELSE LET w == WalkPath(url, SubSeq(base.path, 1, Len(base.path) - 1), "")
         IN  [origin |-> base.origin, path |-> w.path, suffix |-> w.suffix]

\* OCFZip.getPackageDocument's resolvedRootFileURL, the package document's URL
package_url == [origin |-> "http://p", path |-> <<"p.opf">>, suffix |-> ""]

\* PackageDocument.base_url = new URL('.', package_url).href
base_url == NewURL(<<"./">>, package_url)

\* PackageDocument.parseURL
parseURL(url) == NewURL(url, base_url)

-----------------------------------------------------------------------------
(* Markup documents.  An element is [tag, attrs]; attrs maps every          *)
(* attribute name to its value, a token sequence for URL-bearing attributes *)
(* and a string for the filter attributes; <<>> and "" stand for an absent  *)
(* (or empty) attribute, which the code does not tell apart (`!attr`).      *)

UrlAttrs == <<"src", "href", "srcset", "poster", "data", "content",
              "imagesrcset", "xlink:href">>
FilterAttrs == <<"rel", "name", "property", "itemprop">>

NoAttrs ==
    [a \in {UrlAttrs[i] : i \in DOMAIN UrlAttrs} |-> <<>>] @@
    [a \in {FilterAttrs[i] : i \in DOMAIN FilterAttrs} |-> ""]

\* an element with the given attributes set
El(tag, set) == [tag |-> tag, attrs |-> set @@ NoAttrs]

\* String.prototype.trim().toLowerCase() on the filter values of the model
TrimLower(s) ==
    IF s \in {" Stylesheet ", "STYLESHEET", "stylesheet "} THEN "stylesheet"
    ELSE IF s \in {"OG:Image", " og:image"} THEN "og:image"
    ELSE s

LinkRels ==
    {"stylesheet", "icon", "shortcut icon", "mask-icon", "apple-touch-icon",
     "apple-touch-icon-precomposed", "apple-touch-startup-image", "manifest",
     "prefetch", "preload"}
MetaNames ==
    {"msapplication-tileimage", "msapplication-square70x70logo",
     "msapplication-square150x150logo", "msapplication-wide310x150logo",
     "msapplication-square310x310logo", "msapplication-config", "twitter:image"}
MetaProperties ==
    {"og:image", "og:image:url", "og:image:secure_url", "og:audio",
     "og:audio:secure_url", "og:video", "og:video:secure_url", "vk:image"}
MetaItemprops ==
    {"image", "logo", "screenshot", "thumbnailurl", "contenturl", "downloadurl",
     "duringmedia", "embedurl", "installurl", "layoutimage"}

\* a rule without filters; {} stands for an undefined filter list
Rule(tag, attribute) ==
    [tag |-> tag, attribute |-> attribute, rels |-> {}, names |-> {},
     properties |-> {}, itemprops |-> {}]

\* HTMLResource.create's tag_attribute_matchers, in table order
tag_attribute_matchers ==
    << Rule("audio", "src"), Rule("embed", "src"), Rule("img", "src"),
       Rule("input", "src"), Rule("script", "src"), Rule("source", "src"),
       Rule("track", "src"), Rule("video", "src"), Rule("script", "href"),
       Rule("image", "href"), Rule("use", "href"),
       [Rule("link", "href") EXCEPT !.rels = LinkRels],
       Rule("img", "srcset"), Rule("source", "srcset"),
       Rule("video", "poster"), Rule("object", "data"),
       [Rule("meta", "content") EXCEPT !.names = MetaNames,
                                       !.properties = MetaProperties,
                                       !.itemprops = MetaItemprops],
       [Rule("link", "imagesrcset") EXCEPT !.rels = LinkRels] >>

\* one filter of a rule: `if (matcher.rels) { ... continue ... }`
PassesOne(allowed, value) ==
    allowed = {} \/ (TrimLower(value) # "" /\ TrimLower(value) \in allowed)

\* the four filters of HTMLResource.create's loop body, each a `continue`
PassesFilters(matcher, el) ==
    /\ PassesOne(matcher.rels, el.attrs["rel"])
    /\ PassesOne(matcher.names, el.attrs["name"])
    /\ PassesOne(matcher.properties, el.attrs["property"])
    /\ PassesOne(matcher.itemprops, el.attrs["itemprop"])

\* doc.getElementsByTagName(tag): the positions of its elements, in document order
getElementsByTagName(doc, tag) ==
    SelectSeq([i \in 1..Len(doc) |-> i], LAMBDA i : doc[i].tag = tag)

RECURSIVE SerializeAttrs(_, _)
SerializeAttrs(el, i) ==
    IF i > Len(UrlAttrs) THEN <<>>
    ELSE (IF el.attrs[UrlAttrs[i]] = <<>> THEN <<>>
          ELSE <<" " \o UrlAttrs[i] \o "=">> \o el.attrs[UrlAttrs[i]])
         \o SerializeAttrs(el, i + 1)

RECURSIVE serializeToString(_)
\* XMLSerializer.serializeToString: the document's markup, as tokens
serializeToString(doc) ==
    IF doc = <<>> THEN <<>>
    ELSE <<"<" \o Head(doc).tag>> \o SerializeAttrs(Head(doc), 1) \o <<"/>">>
         \o serializeToString(Tail(doc))

-----------------------------------------------------------------------------
(* Stylesheet text: the two regular expressions of CSSResource.create and  *)
(* String.prototype.replace, on token sequences.  " " is white space, "'"  *)
(* and "\"" the quotes.                                                    *)

IsQuote(t) == t \in {"'", "\""}

RECURSIVE SkipWs(_, _)
\* \s*: the first position from i on that holds no white space
SkipWs(s, i) == IF i <= Len(s) /\ s[i] = " " THEN SkipWs(s, i + 1) ELSE i

\* String.prototype.trim()
RECURSIVE Trim(_)
Trim(s) ==
    IF s = <<>> THEN s
    ELSE IF Head(s) = " " THEN Trim(Tail(s))
    ELSE IF s[Len(s)] = " " THEN Trim(SubSeq(s, 1, Len(s) - 1))
    ELSE s

RECURSIVE FindClose(_, _, _, _)
\* (.*?)\1\s*<term> after an opening quote q: the first k >= from holding q
\* with only white space between it and term; 0 when there is none
FindClose(s, from, q, term) ==
    IF from > Len(s) THEN 0
    ELSE IF s[from] = q /\ SkipWs(s, from + 1) <= Len(s)
            /\ s[SkipWs(s, from + 1)] = term
         THEN from
         ELSE FindClose(s, from + 1, q, term)

RECURSIVE FindTerm(_, _, _)
\* the first k >= from holding term; 0 when there is none
FindTerm(s, from, term) ==
    IF from > Len(s) THEN 0
    ELSE IF s[from] = term THEN from ELSE FindTerm(s, from + 1, term)

\* one attempt of <kw>\s[+*](['"]?)(.*?)\1\s*<term> at position i:
\* [ok, group (match[2]), next (lastIndex)]
MatchAt(s, i, kw, needWs, term) ==
    LET j == SkipWs(s, i + 1)
        quoted == j <= Len(s) /\ IsQuote(s[j])
        k == IF quoted THEN FindClose(s, j + 1, s[j], term) ELSE 0
        e == FindTerm(s, j, term)
    IN  IF s[i] # kw \/ (needWs /\ j = i + 1) THEN [ok |-> FALSE]
        ELSE IF k # 0
        THEN [ok |-> TRUE, group |-> SubSeq(s, j + 1, k - 1),
              next |-> SkipWs(s, k + 1) + 1]
        ELSE IF e # 0
        THEN [ok |-> TRUE, group |-> Trim(SubSeq(s, j, e - 1)), next |-> e + 1]
        ELSE [ok |-> FALSE]

RECURSIVE ExecAll(_, _, _, _, _)
\* the `while ((match = regex.exec(content_str)) !== null)` loop of a /g regex:
\* every match[2], left to right, from position i on
ExecAll(s, i, kw, needWs, term) ==
    IF i > Len(s) THEN <<>>
    ELSE The({ IF m.ok
                         THEN <<m.group>> \o ExecAll(s, m.next, kw, needWs, term)
                         ELSE ExecAll(s, i + 1, kw, needWs, term)
            : m \in {MatchAt(s, i, kw, needWs, term)}})

RECURSIVE TrimAll(_)
TrimAll(groups) ==
    IF groups = <<>> THEN <<>> ELSE <<Trim(Head(groups))>> \o TrimAll(Tail(groups))

\* importRegex = /@import\s+(['"]?)(.*?)\1\s*;/g, each match[2].trim()
imports(content_str) == TrimAll(ExecAll(content_str, 1, "@import", TRUE, ";"))

\* imports.filter(i => !i.startsWith('url('))
filtered_imports(content_str) ==
    SelectSeq(imports(content_str), LAMBDA i : i = <<>> \/ Head(i) # "url(")

\* regex = /url\(\s*(['"]?)(.*?)\1\s*\)/g, each match[2]
urls(content_str) == ExecAll(content_str, 1, "url(", FALSE, ")")

RECURSIVE Pieces(_)
\* the text of a token sequence cut where a search can begin or end inside a
\* token: "../" is "." and "./"
Pieces(s) ==
    IF s = <<>> THEN <<>>
    ELSE (IF Head(s) = "../" THEN <<".", "./">> ELSE <<Head(s)>>) \o Pieces(Tail(s))

RECURSIVE Tokens(_)
\* the tokens of a text given in pieces: "." and "./" side by side are "../"
Tokens(s) ==
    IF Len(s) < 2 THEN s
    ELSE IF s[1] = "." /\ s[2] = "./" THEN <<"../">> \o Tokens(Tail(Tail(s)))
    ELSE <<Head(s)>> \o Tokens(Tail(s))

RECURSIVE IndexOfPieces(_, _, _)
\* the first position >= i where the pieces pat occur in the pieces s; 0 when
\* they do not
IndexOfPieces(s, pat, i) ==
    IF i + Len(pat) - 1 > Len(s) THEN 0
    ELSE IF SubSeq(s, i, i + Len(pat) - 1) = pat THEN i
    ELSE IndexOfPieces(s, pat, i + 1)

\* content_str.indexOf(pat) from piece i on, as String.prototype.replace
\* searches: the position, counted in pieces from 1, of the first occurrence of
\* the text of pat in the text of s, inside a token too; 0 when there is none
IndexOf(s, pat, i) == IndexOfPieces(Pieces(s), Pieces(pat), i)

\* content_str.replace(pat, by), pat a string: the first occurrence only
replace(s, pat, by) ==
    The({ IF i = 0 THEN s
          ELSE Tokens(SubSeq(Pieces(s), 1, i - 1) \o <<by>>
                      \o SubSeq(Pieces(s), i + Len(Pieces(pat)), Len(Pieces(s))))
          : i \in {IndexOf(s, pat, 1)} })

-----------------------------------------------------------------------------
(* PackageDocument.getResource and createResourceFromItem                  *)

\* item.mime.trim().toLowerCase() on the MIME types of the model
NormMime(mime) ==
    IF mime \in {" Text/CSS ", "TEXT/CSS"} THEN "text/css"
    ELSE IF mime = "Application/XHTML+XML" THEN "application/xhtml+xml"
    ELSE mime

\* a classification on the MIME type as the manifest spells it
resource_typeRaw(mime) ==
    IF mime \in {"text/html", "application/xhtml", "application/xhtml+xml"}
    THEN "html"
    ELSE IF mime \in {"text/css"} THEN "css"
    ELSE "binary"

\* createResourceFromItem's is_html / is_css: the resource class built
resource_type(mime) ==
    IF NormMime(mime) \in {"text/html", "application/xhtml", "application/xhtml+xml"}
    THEN "html"
    ELSE IF NormMime(mime) \in {"text/css"} THEN "css"
    ELSE "binary"

\* this.manifest.items.find(item => resolved_url.href === this.parseURL(item.href).href):
\* the first such item's index, 0 when there is none
FindItem(items, resolved_url) ==
    LET hits == {i \in 1..Len(items) : parseURL(items[i].href) = resolved_url}
    IN  IF hits = {} THEN 0 ELSE CHOOSE i \in hits : \A j \in hits : i <= j

\* getResource up to its return or throw: what it decides in cache state `cache`
getResource(cache, items, url, base) ==
    The({
        IF resolved_url.origin # package_url.origin
        THEN [out |-> "OriginError", promise |-> 0, item |-> 0, url |-> resolved_url]
        ELSE IF resolved_url.path \in DOMAIN cache
        THEN [out |-> "cached", promise |-> cache[resolved_url.path], item |-> 0,
              url |-> resolved_url]
        ELSE The({
            IF item = 0
            THEN [out |-> "NotFound", promise |-> 0, item |-> 0, url |-> resolved_url]
            ELSE [out |-> "created", promise |-> 0, item |-> item,
                  url |-> resolved_url]
            : item \in {FindItem(items, resolved_url)}})
            : resolved_url \in {NewURL(url, base)}})

\* a getResource that does not install the promise it creates (it would store
\* the resource once resolved)
InstallCacheNever(cache, g, id) == cache

\* a getResource that installs its entry before it looks the item up
InstallCacheFirst(cache, g, id) ==
    IF g.out \in {"created", "NotFound"} THEN (g.url.path :> id) @@ cache ELSE cache

\* this.#cached_resources[resolved_url.pathname] = createResourceFromItem(...)
InstallCache(cache, g, id) ==
    IF g.out = "created" THEN (g.url.path :> id) @@ cache ELSE cache

\* OCFZip.getUint8Array's checks: the entry is there and is no directory
Readable(tree, path) == path \in DOMAIN tree /\ ~tree[path].directory

\* what OCFZip.getUint8Array throws for path, "" when it returns the read; every
\* entry of the model has its getData method
getUint8ArrayError(tree, path) ==
    IF path \notin DOMAIN tree THEN "Missing entry"
    ELSE IF tree[path].directory THEN "Unexpected directory entry"
    ELSE ""

\* the promise createResourceFromItem(item, opf, base_url) returns, as it is when
\* the call returns: waiting for item.getContentBuffer(), or rejected by its throw
createResourceFromItem(items, tree, item, resolved_url) ==
    [path |-> resolved_url.path, item |-> item, base |-> resolved_url,
     kind |-> resource_type(items[item].mime),
     pc |-> IF Readable(tree, parseURL(items[item].href).path) THEN "read"
            ELSE "rejected",
     error |-> getUint8ArrayError(tree, parseURL(items[item].href).path),
     doc |-> <<>>, content |-> <<>>, phase |-> "", list |-> <<>>,
     pos |-> [m |-> 1, k |-> 1, stage |-> "attr"], awaiting |-> 0,
     resources |-> <<>>, object_url |-> 0, blob |-> <<>>, id |-> 0]

Bump(bag, key) ==
    IF key \in DOMAIN bag THEN [bag EXCEPT ![key] = @ + 1] ELSE (key :> 1) @@ bag

\* one getResource call on the state st = [tasks, cache, reads, returned]:
\* the state after it, what it did and the promise it returned
DoGet(st, url, base) ==
    The({
        LET id == Len(st.tasks) + 1
            p == IF g.out = "created" THEN id ELSE g.promise
        IN  [out |-> g.out, promise |-> p, path |-> g.url.path,
             st |-> IF g.out = "created"
                    THEN The({
                         [tasks |-> Append(st.tasks, [new EXCEPT !.id = id]),
                          cache |-> InstallCache(st.cache, g, id),
                          reads |-> IF new.pc = "read"
                                    THEN Bump(st.reads,
                                              parseURL(manifest[g.item].href).path)
                                    ELSE st.reads,
                          returned |-> st.returned \cup {<<g.url.path, id>>}]
            : new \in {createResourceFromItem(manifest, dirtree, g.item, g.url)}})
                    ELSE IF g.out = "cached"
                    THEN [st EXCEPT !.returned = @ \cup {<<g.url.path, g.promise>>},
                                    !.cache = InstallCache(st.cache, g, id)]
                    ELSE [st EXCEPT !.cache = InstallCache(st.cache, g, id)]]
            : g \in {getResource(st.cache, manifest, url, base)}})

-----------------------------------------------------------------------------
(* HTMLResource.create and CSSResource.create between two suspensions      *)

\* `if (url.origin !== base_origin) continue`, base_origin = new URL(base_url).origin
IsExternal(ref, base) == NewURL(ref, base).origin # base.origin

EndPos == [m |-> 0, k |-> 0, stage |-> "end"]

RECURSIVE ScanFrom(_, _, _, _, _)
\* the two nested loops of HTMLResource.create from rule m, candidate k on: the
\* place of the next `await opf.getResource(...)`, or EndPos when the loops end
ScanFrom(doc, base, m, k, stage) ==
    IF m > Len(tag_attribute_matchers) THEN EndPos
    ELSE LET matcher == tag_attribute_matchers[m]
             candidates == getElementsByTagName(doc, matcher.tag)
         IN  IF k > Len(candidates) THEN ScanFrom(doc, base, m + 1, 1, "attr")
             ELSE LET candidate == doc[candidates[k]]
                      attr == candidate.attrs[matcher.attribute]
                      xlinkHref == candidate.attrs["xlink:href"]
                  IN  IF stage = "attr"
                      THEN IF attr = <<>> /\ xlinkHref = <<>>
                           THEN ScanFrom(doc, base, m, k + 1, "attr")
                           ELSE IF ~PassesFilters(matcher, candidate)
                           THEN ScanFrom(doc, base, m, k + 1, "attr")
                           ELSE IF attr # <<>>
                           THEN IF IsExternal(attr, base)
                                THEN ScanFrom(doc, base, m, k + 1, "attr")
                                ELSE [m |-> m, k |-> k, stage |-> "attr"]
                           ELSE ScanFrom(doc, base, m, k, "xlink")
                      ELSE IF xlinkHref = <<>>
                           THEN ScanFrom(doc, base, m, k + 1, "attr")
                           ELSE IF IsExternal(xlinkHref, base)
                           THEN ScanFrom(doc, base, m, k + 1, "attr")
                           ELSE [m |-> m, k |-> k, stage |-> "xlink"]

\* the element and the attribute the scan of task tk is at
PosElement(tk) ==
    getElementsByTagName(tk.doc, tag_attribute_matchers[tk.pos.m].tag)[tk.pos.k]
PosAttribute(tk) ==
    IF tk.pos.stage = "attr" THEN tag_attribute_matchers[tk.pos.m].attribute
    ELSE "xlink:href"

RECURSIVE SkipExternal(_, _, _)
\* a `for (const candidate of list)` loop of CSSResource.create from index i on:
\* the index of the next candidate it resolves, Len(list) + 1 when there is none
SkipExternal(list, base, i) ==
    IF i > Len(list) THEN i
    ELSE IF IsExternal(list[i], base) THEN SkipExternal(list, base, i + 1)
    ELSE i

\* the base address the url(...) pass hands to getResource: it passes none, and
\* getResource's parameter defaults to this.base_url
UrlPassBase(stylesheet_url) == base_url

\* the base address the @import pass hands to getResource
ImportPassBase(stylesheet_url) == stylesheet_url

\* task tk run on to its next `await opf.getResource(url, base)`:
\* [end, task, url, base]; end when create returns its resource
NextCall(tk) ==
    IF tk.kind = "html"
    THEN The({
         LET at == [tk EXCEPT !.pos = pos]
         IN  IF pos = EndPos
             THEN [end |-> TRUE, task |-> at, url |-> <<>>, base |-> tk.base]
             ELSE [end |-> FALSE, task |-> at,
                   url |-> at.doc[PosElement(at)].attrs[PosAttribute(at)],
                   base |-> tk.base]
            : pos \in {ScanFrom(tk.doc, tk.base, tk.pos.m, tk.pos.k, tk.pos.stage)}})
    ELSE IF tk.kind = "css"
    THEN The({
         IF i <= Len(tk.list)
         THEN [end |-> FALSE, task |-> [tk EXCEPT !.pos.k = i], url |-> tk.list[i],
               base |-> IF tk.phase = "import" THEN ImportPassBase(tk.base)
                        ELSE UrlPassBase(tk.base)]
         ELSE IF tk.phase = "url"
         THEN [end |-> TRUE, task |-> [tk EXCEPT !.pos.k = i], url |-> <<>>,
               base |-> tk.base]
         ELSE The({
              The({
              IF j <= Len(found)
              THEN [end |-> FALSE,
                    task |-> [tk EXCEPT !.phase = "url", !.list = found, !.pos.k = j],
                    url |-> found[j], base |-> UrlPassBase(tk.base)]
              ELSE [end |-> TRUE,
                    task |-> [tk EXCEPT !.phase = "url", !.list = found, !.pos.k = j],
                    url |-> <<>>, base |-> tk.base]
            : j \in {SkipExternal(found, tk.base, 1)}})
            : found \in {urls(tk.content)}})
            : i \in {SkipExternal(tk.list, tk.base, tk.pos.k)}})
    ELSE [end |-> TRUE, task |-> tk, url |-> <<>>, base |-> tk.base]

\* HTMLResource.getBlob / CSSResource.getBlob / BinaryResource.getBlob on the
\* resource of task tk: [task, content], the resource after the call and the
\* content of the Blob returned
getBlob(tk) ==
    IF tk.kind = "html"
    THEN IF tk.blob # <<>> THEN [task |-> tk, content |-> tk.blob[1]]
         ELSE [task |-> [tk EXCEPT !.blob = <<serializeToString(tk.doc)>>],
               content |-> serializeToString(tk.doc)]
    ELSE IF tk.kind = "css" THEN [task |-> tk, content |-> tk.content]
    ELSE [task |-> tk, content |-> tk.blob[1]]

\* CommonResource.getURL on the resource of task tk, with the host's object URLs
\* hs: [task, handles, url], url the handle number returned
getURL(tk, hs) ==
    IF tk.object_url # 0 THEN [task |-> tk, handles |-> hs, url |-> tk.object_url]
    ELSE The({
         LET h == Len(hs) + 1
         IN  [task |-> [b.task EXCEPT !.object_url = h],
              handles |-> Append(hs, [owner |-> tk.id, content |-> b.content,
                                      revoked |-> 0]),
              url |-> h]
            : b \in {getBlob(tk)}})

\* CommonResource.clean: the host's object URLs after it
clean(tk, hs) ==
    IF tk.object_url # 0 THEN [hs EXCEPT ![tk.object_url].revoked = @ + 1] ELSE hs

-----------------------------------------------------------------------------
(* The package and the archives of the model *)

\* PackageDocument.manifest.items as #processManifest leaves it: every href is
\* same-origin with the package and every id is its own
Manifest ==
    << [id |-> "ch",  href |-> <<"ch.xhtml">>,     mime |-> "application/xhtml+xml"],
       [id |-> "css", href |-> <<"c/", "s.css">>,  mime |-> " Text/CSS "],
       [id |-> "cf",  href |-> <<"c/", "f.css">>,  mime |-> "text/css"],
       [id |-> "r",   href |-> <<"r.css">>,        mime |-> "text/css"],
       [id |-> "f",   href |-> <<"f.css">>,        mime |-> "text/css"],
       [id |-> "img", href |-> <<"i.png">>,        mime |-> "image/png"],
       [id |-> "m",   href |-> <<"m.png">>,        mime |-> "image/png"],
       [id |-> "svg", href |-> <<"v.svg">>,        mime |-> "image/svg+xml"] >>

\* an archive entry: what DOMParser and TextDecoder make of its bytes
Entry(doc, text) == [directory |-> FALSE, doc |-> doc, text |-> text]

Docs ==
    << \* a stylesheet link, an image, an external image, a plain anchor
       << El("link", [rel |-> " Stylesheet ", href |-> <<"c/", "s.css">>]),
          El("img", [src |-> <<"i.png">>]),
          El("img", [src |-> <<"http://x/", "e.png">>]),
          El("a", [href |-> <<"ch.xhtml">>]) >>,
       \* a link whose rel is filtered out, an svg image, a root stylesheet
       << El("link", [rel |-> "alternate", href |-> <<"c/", "s.css">>]),
          El("image", ("xlink:href" :> <<"i.png">>)),
          El("link", [rel |-> "stylesheet", href |-> <<"r.css">>]),
          \* a meta that passes the name filter alone, one that passes all three
          El("meta", [name |-> "twitter:image", content |-> <<"i.png">>]),
          El("meta", [name |-> "twitter:image", property |-> " og:image",
                      itemprop |-> "logo", content |-> <<"i.png">>]) >>,
       \* an image whose archive entry is missing
       << El("img", [src |-> <<"m.png">>]),
          El("link", [rel |-> "stylesheet", href |-> <<"r.css">>]) >>,
       \* a script that is the document itself
       << El("img", [src |-> <<"i.png">>]),
          El("script", [src |-> <<"ch.xhtml">>]) >>,
       \* an image named with a fragment, after it an audio source that is SVG
       << El("img", [src |-> <<"i.png", "#s">>]),
          El("audio", [src |-> <<"v.svg">>]) >> >>

Sheets ==
    << \* @import url(f.css); x{url(f.css)}
       << "@import", " ", "url(", "f.css", ")", ";", "x{", "url(", "f.css", ")", "}" >>,
       \* @import "f.css"; x{url( 'f.css' )}
       << "@import", " ", "\"", "f.css", "\"", ";", "x{", "url(", " ", "'", "f.css",
          "'", " ", ")", "}" >>,
       \* @import url(./f.css); @import "f.css";
       << "@import", " ", "url(", "./", "f.css", ")", ";", "@import", " ", "\"",
          "f.css", "\"", ";" >>,
       \* @import "http://x/f.css"; x{url(f.css)}
       << "@import", " ", "\"", "http://x/", "f.css", "\"", ";", "x{", "url(",
          "f.css", ")", "}" >>,
       \* x{url(http://x/e.png)} y{url(i.png)}
       << "x{", "url(", "http://x/", "e.png", ")", "}", "y{", "url(", "i.png", ")",
          "}" >> >>

\* the archive whose markup document is Docs[d] and whose two stylesheets with
\* references, /c/s.css and /r.css, both hold Sheets[s]
Archive(d, s) ==
    (<<"ch.xhtml">> :> Entry(Docs[d], <<>>)) @@
    (<<"c", "s.css">> :> Entry(<<>>, Sheets[s])) @@
    (<<"r.css">> :> Entry(<<>>, Sheets[s])) @@
    (<<"c", "f.css">> :> Entry(<<>>, <<"x{", "}">>)) @@
    (<<"f.css">> :> Entry(<<>>, <<"y{", "}">>)) @@
    (<<"i.png">> :> Entry(<<>>, <<"PNG">>)) @@
    \* an SVG image whose markup and style both refer to /i.png
    (<<"v.svg">> :> Entry(<< El("image", ("xlink:href" :> <<"i.png">>)) >>,
                          << "x{", "url(", "i.png", ")", "}" >>)) @@
    (<<"c">> :> [directory |-> TRUE, doc |-> <<>>, text |-> <<>>])

\* the (document, stylesheet) pairs of the archives the model starts from
Worlds == {<<1, 1>>, <<2, 2>>, <<3, 3>>, <<4, 4>>, <<1, 5>>, <<3, 5>>, <<5, 1>>}

\* the getResource(url, base_url) calls the environment makes
TopCalls ==
    { [url |-> <<"ch.xhtml">>, base |-> base_url],
      [url |-> <<"ch.xhtml", "#s">>, base |-> base_url],
      [url |-> <<"r.css">>, base |-> base_url],
      [url |-> <<"c/", "s.css">>, base |-> base_url],
      [url |-> <<"f.css">>, base |-> parseURL(<<"c/", "s.css">>)],
      [url |-> <<"i.png">>, base |-> base_url],
      [url |-> <<"nope.png">>, base |-> base_url],
      [url |-> <<"http://x/", "e.png">>, base |-> base_url] }

-----------------------------------------------------------------------------
(* The package document, as PackageDocument's constructor reads it.  An    *)
(* element is a record of its tag, its text and the attributes the code    *)
(* reads; "" (<<>> for an href) stands for an absent or empty attribute,   *)
(* which the code does not tell apart (`!attr`).  The document is its root *)
(* element's tag, unique-identifier and version, and the root's children.  *)

NoPkgAttrs ==
    [id |-> "", text |-> "", property |-> "", href |-> <<>>, mime |-> "",
     fallback |-> "", idref |-> "", linear |-> "", toc |-> "", children |-> <<>>]

\* an element of the package document with the given attributes set
PkgEl(tag, set) == [tag |-> tag] @@ set @@ NoPkgAttrs

\* Element.getElementsByTagName(tag) on the children of one element
ElementsByTag(children, tag) == SelectSeq(children, LAMBDA e : e.tag = tag)

\* documentElement.querySelector(tag): the first such child of the root,
\* NoPkgAttrs (no tag) for null
querySelector(sections, tag) ==
    IF ElementsByTag(sections, tag) = <<>> THEN NoPkgAttrs
    ELSE ElementsByTag(sections, tag)[1]

RECURSIVE MetadataChildren(_)
\* the children of all metadata elements, in document order
MetadataChildren(sections) ==
    IF sections = <<>> THEN <<>>
    ELSE (IF Head(sections).tag = "metadata" THEN Head(sections).children ELSE <<>>)
         \o MetadataChildren(Tail(sections))

\* documentElement.querySelector(`metadata > [id="${uid}"]`)
queryPrimaryIdentifier(sections, uid) ==
    The({ IF hits = <<>> THEN NoPkgAttrs ELSE hits[1]
          : hits \in {SelectSeq(MetadataChildren(sections), LAMBDA e : e.id = uid)} })

\* textContent?.trim() on the texts of the model
TrimText(s) ==
    IF s \in {" ", "  "} THEN "" ELSE IF s = " en " THEN "en" ELSE s

\* `for (const e of els) { const t = e.textContent?.trim(); if (t) list.push(t) }`,
\* the loops over the identifiers and the languages
TrimmedTexts(els) ==
    SelectSeq([i \in 1..Len(els) |-> TrimText(els[i].text)], LAMBDA t : t # "")

\* `for (const title of titles) { const text = title.textContent?.trim();
\* if (text) titles.push(TextRun.fromElement(title, this.lang)) }`: a TextRun is
\* its text, the element's textContent as it stands
TextRuns(els) ==
    The({ [i \in 1..Len(kept) |-> kept[i].text]
          : kept \in {SelectSeq(els, LAMBDA e : TrimText(e.text) # "")} })

NoMetadata == [error |-> "", identifiers |-> <<>>, titles |-> <<>>, languages |-> <<>>]

\* #processMetadata: the error it throws, or the PackageMetadata it returns
processMetadata(metadata) ==
    IF ElementsByTag(metadata.children, "dc:identifier") = <<>>
    THEN [NoMetadata EXCEPT !.error = "Missing dc:identifier element in metadata"]
    ELSE IF ElementsByTag(metadata.children, "dc:title") = <<>>
    THEN [NoMetadata EXCEPT !.error = "Missing dc:title element in metadata"]
    ELSE IF ElementsByTag(metadata.children, "dc:language") = <<>>
    THEN [NoMetadata EXCEPT !.error = "Missing dc:language element in metadata"]
    ELSE [error |-> "",
          identifiers |-> TrimmedTexts(ElementsByTag(metadata.children, "dc:identifier")),
          titles |-> TextRuns(ElementsByTag(metadata.children, "dc:title")),
          languages |-> TrimmedTexts(ElementsByTag(metadata.children, "dc:language"))]

\* a manifest that takes an item of another origin
ItemErrorAnyOrigin(item, url) ==
    IF item.href = <<>> THEN "Missing href attribute in manifest item"
    ELSE IF item.mime = "" THEN "Missing media-type attribute in manifest item"
    ELSE IF item.id = "" THEN "Missing id attribute in manifest item"
    ELSE ""

\* the checks #processManifest makes on one item element, in their order
ItemError(item, url) ==
    IF item.href = <<>> THEN "Missing href attribute in manifest item"
    ELSE IF item.mime = "" THEN "Missing media-type attribute in manifest item"
    ELSE IF item.id = "" THEN "Missing id attribute in manifest item"
    ELSE IF NewURL(item.href, NewURL(<<"./">>, url)).origin # url.origin
    THEN "Resource origin does not match package origin"
    ELSE ""

\* the PackageItem built from an item element; id is the key it is stored under
PackageItem(item) ==
    [id |-> item.id, href |-> item.href, mime |-> item.mime, fallback |-> item.fallback]

NoManifest == [error |-> "", items |-> <<>>, items_by_id |-> <<>>]

\* #processManifest with package URL url: the error of the first item that fails,
\* or the PackageManifest: items in document order, and items_by_id, which holds
\* for each id the (position in items of the) item stored under it last
processManifest(manifest_el, url) ==
    LET items == ElementsByTag(manifest_el.children, "item")
        bad == {i \in 1..Len(items) : ItemError(items[i], url) # ""}
        ids == {items[i].id : i \in 1..Len(items)}
    IN  IF bad # {}
        THEN [NoManifest EXCEPT
                !.error = ItemError(items[CHOOSE i \in bad : \A j \in bad : i <= j], url)]
        ELSE [error |-> "",
              items |-> [i \in 1..Len(items) |-> PackageItem(items[i])],
              items_by_id |->
                  [id \in ids |-> CHOOSE i \in 1..Len(items) :
                                      /\ items[i].id = id
                                      /\ \A j \in 1..Len(items) :
                                             items[j].id = id => j <= i]]

\* the MIME types #processSpine accepts as content documents
ContentDocumentTypes ==
    {"application/xhtml+xml", "application/svg+xml", "image/svg+xml",
     "application/svg", "image/svg", "application/xhtml", "text/html"}

\* the property names every plain object inherits from Object.prototype
ObjectPrototypeMembers ==
    {"constructor", "toString", "toLocaleString", "valueOf", "hasOwnProperty",
     "isPrototypeOf", "propertyIsEnumerable", "__proto__", "__defineGetter__",
     "__defineSetter__", "__lookupGetter__", "__lookupSetter__"}

\* this.manifest.items_by_id[id], items_by_id a plain {}: the item's position;
\* 0 for undefined; -1 for a member inherited from Object.prototype, which is
\* truthy and is no item: it has neither mime nor fallback.  (No manifest of the
\* model has an item of id "__proto__", whose assignment would set the prototype.)
ItemById(items_by_id, id) ==
    IF id \in DOMAIN items_by_id THEN items_by_id[id]
    ELSE IF id \in ObjectPrototypeMembers THEN -1
    ELSE 0

\* one meta[property=...] hint of #processRendition
RenditionValue(metadata, property, valid, default) ==
    The({ IF hits = <<>> THEN default
          ELSE IF TrimText(hits[1].text) \in valid THEN TrimText(hits[1].text)
          ELSE default
          : hits \in {SelectSeq(metadata.children,
                                LAMBDA e : e.tag = "meta" /\ e.property = property)} })

\* #processRendition
processRendition(metadata) ==
    [layout |-> RenditionValue(metadata, "rendition:layout",
                               {"pre-paginated", "reflowable"}, "reflowable"),
     orientation |-> RenditionValue(metadata, "rendition:orientation",
                                    {"auto", "landscape", "portrait"}, "auto"),
     spread |-> RenditionValue(metadata, "rendition:spread",
                               {"none", "landscape", "portrait", "both", "auto"}, "auto"),
     page_spread |-> "center",
     flow |-> RenditionValue(metadata, "rendition:flow",
                             {"auto", "paginated", "scrolled-continuous", "scrolled-doc"},
                             "auto"),
     align_x_center |-> FALSE]

-----------------------------------------------------------------------------
(* The container: OCFZip.getPackageDocument up to `new PackageDocument`    *)

\* OCFAbstractContainer.container_root_url, the URL of the archive's root
container_root_url == [origin |-> "http://p", path |-> <<"">>, suffix |-> ""]

\* the pathname of META-INF/container.xml
DescriptorPath == <<"META-INF", "container.xml">>

\* getPackageDocument's checks before its first await: what it throws on the
\* index `tree`, "" when it goes on to read the descriptor; every entry of the
\* model has its getData method
checkDescriptor(tree) ==
    IF DescriptorPath \notin DOMAIN tree THEN "EPUB missing META-INF/container.xml"
    ELSE IF tree[DescriptorPath].directory
    THEN "Unexpected directory entry in META-INF/container.xml"
    ELSE ""

NoPackage == [error |-> "", package_url |-> container_root_url]

\* a getPackageDocument that does not look at the rootfile's media-type
resolveRootfileAnyType(rootfiles, tree) ==
    IF rootfiles = <<>>
    THEN [NoPackage EXCEPT
            !.error = "Missing rootfile element in META-INF/container.xml"]
    ELSE IF rootfiles[1].full_path = <<>>
    THEN [NoPackage EXCEPT
            !.error = "Missing full-path attribute in META-INF/container.xml"]
    ELSE IF NewURL(rootfiles[1].full_path, container_root_url).path
                \notin DOMAIN tree
    THEN [NoPackage EXCEPT !.error = "Missing package document"]
    ELSE [error |-> "",
          package_url |-> NewURL(rootfiles[1].full_path, container_root_url)]

\* getPackageDocument between its two awaits, the descriptor read and parsed into
\* its rootfile elements: the error thrown on the index `tree` as it is then, or
\* resolvedRootFileURL, whose entry it goes on to read
resolveRootfile(rootfiles, tree) ==
    IF rootfiles = <<>>
    THEN [NoPackage EXCEPT
            !.error = "Missing rootfile element in META-INF/container.xml"]
    ELSE IF rootfiles[1].full_path = <<>>
    THEN [NoPackage EXCEPT
            !.error = "Missing full-path attribute in META-INF/container.xml"]
    ELSE IF rootfiles[1].media_type # "application/oebps-package+xml"
    THEN [NoPackage EXCEPT
            !.error = "Unexpected media-type in META-INF/container.xml"]
    ELSE The({
        IF resolvedRootFileURL.path \notin DOMAIN tree
        THEN [NoPackage EXCEPT !.error = "Missing package document"]
        ELSE IF tree[resolvedRootFileURL.path].directory
        THEN [NoPackage EXCEPT
                !.error = "Unexpected directory entry in package document"]
        ELSE [error |-> "", package_url |-> resolvedRootFileURL]
        : resolvedRootFileURL \in
              {NewURL(rootfiles[1].full_path, container_root_url)} })

-----------------------------------------------------------------------------
(* The package documents and the archives of the model *)

Meta(tag, id, text) == PkgEl(tag, [id |-> id, text |-> text])
Item(id, href, mime, fallback) ==
    PkgEl("item", [id |-> id, href |-> href, mime |-> mime, fallback |-> fallback])
ItemRef(idref, linear) == PkgEl("itemref", [idref |-> idref, linear |-> linear])
Section(tag, children) == PkgEl(tag, [children |-> children])

\* the values of the root element's tag, unique-identifier and version
Roots == {"package", "opf:package"}
Uids == {"", "uid"}
Versions == {"", "3.0"}

\* the metadata elements of a document: none, one or two
MetadataVariants ==
    { <<>>,
      \* complete, with a rendition hint
      << Section("metadata",
            << Meta("dc:identifier", "uid", "urn:1"), Meta("dc:title", "", "T"),
               Meta("dc:language", "", " en "),
               PkgEl("meta", [property |-> "rendition:layout",
                              text |-> "pre-paginated"]) >>) >>,
      \* no element carries the unique identifier
      << Section("metadata",
            << Meta("dc:identifier", "other", "urn:1"), Meta("dc:title", "", "T"),
               Meta("dc:language", "", "en") >>) >>,
      \* the element that carries it is a title
      << Section("metadata",
            << Meta("dc:identifier", "", "urn:1"), Meta("dc:title", "uid", "T"),
               Meta("dc:language", "", "en") >>) >>,
      \* no title
      << Section("metadata",
            << Meta("dc:identifier", "uid", "urn:1"),
               Meta("dc:language", "", "en") >>) >>,
      \* no language
      << Section("metadata",
            << Meta("dc:identifier", "uid", "urn:1"), Meta("dc:title", "", "T") >>) >>,
      \* a title of white space
      << Section("metadata",
            << Meta("dc:identifier", "uid", "urn:1"), Meta("dc:title", "", " "),
               Meta("dc:language", "", "en") >>) >>,
      \* two metadata elements, the identifier in the second
      << Section("metadata",
            << Meta("dc:title", "", "T"), Meta("dc:language", "", "en") >>),
         Section("metadata", << Meta("dc:identifier", "uid", "urn:1") >>) >> }

\* items every manifest of the model has: content documents, foreign resources
\* with and without fallbacks, and two that fall back on each other
CommonItems ==
    << Item("ch", <<"ch.xhtml">>, "application/xhtml+xml", ""),
       Item("svg", <<"v.svg">>, "image/svg+xml", ""),
       Item("up", <<"u.xhtml">>, "Application/XHTML+XML", ""),
       Item("bin", <<"b.bin">>, "application/octet-stream", ""),
       Item("fb", <<"i.png">>, "image/png", "ch"),
       Item("fb2", <<"m.png">>, "image/png", "fb"),
       Item("dangling", <<"d.bin">>, "application/octet-stream", "nope"),
       Item("cyc1", <<"c/", "s.css">>, "text/css", "cyc2"),
       Item("cyc2", <<"c/", "f.css">>, "text/css", "cyc1") >>

\* the manifest elements of a document: none, or one with one more item
ManifestVariants ==
    { <<>>,
      << Section("manifest", CommonItems) >>,
      << Section("manifest",
            Append(CommonItems, Item("x", <<>>, "image/png", ""))) >>,
      << Section("manifest",
            Append(CommonItems, Item("x", <<"x.png">>, "", ""))) >>,
      << Section("manifest",
            Append(CommonItems, Item("", <<"x.png">>, "image/png", ""))) >>,
      << Section("manifest",
            Append(CommonItems, Item("x", <<"http://x/", "e.png">>, "image/png", ""))) >>,
      \* a second item with the id of the first
      << Section("manifest",
            Append(CommonItems, Item("ch", <<"x.png">>, "image/png", ""))) >> }

Spine(toc, itemrefs) == PkgEl("spine", [toc |-> toc, children |-> itemrefs])

\* the spine elements of a document
SpineVariants ==
    { <<>>,
      << Spine("", <<>>) >>,
      << Spine("", << ItemRef("ch", "") >>) >>,
      << Spine("ch", << ItemRef("svg", "yes") >>) >>,
      << Spine("nope", << ItemRef("ch", "") >>) >>,
      << Spine("", << ItemRef("ch", "no") >>) >>,
      << Spine("", << ItemRef("ch", "no"), ItemRef("fb", "no") >>) >>,
      << Spine("", << ItemRef("ch", "no"), ItemRef("fb2", "") >>) >>,
      << Spine("", << ItemRef("ch", "No") >>) >>,
      << Spine("", << ItemRef("ch", ""), ItemRef("bin", "") >>) >>,
      << Spine("", << ItemRef("dangling", "") >>) >>,
      << Spine("", << ItemRef("up", "") >>) >>,
      << Spine("", << ItemRef("", "") >>) >>,
      << Spine("", << ItemRef("nope", "") >>) >>,
      << Spine("", << ItemRef("ch", ""), ItemRef("cyc1", "") >>) >>,
      \* a toc, and an idref, that name a member of Object.prototype
      << Spine("constructor", << ItemRef("ch", "") >>) >>,
      << Spine("", << ItemRef("ch", ""), ItemRef("toString", "") >>) >> }

\* the package documents of the model
PackageDocs ==
    { [root |-> r, uid |-> u, version |-> v, sections |-> m \o n \o s] :
        r \in Roots, u \in Uids, v \in Versions, m \in MetadataVariants,
        n \in ManifestVariants, s \in SpineVariants }

\* the parsed META-INF/container.xml: its rootfile elements (none when the XML
\* is malformed)
Rootfile(full_path, media_type) == [full_path |-> full_path, media_type |-> media_type]

PackageMediaType == "application/oebps-package+xml"

\* an archive's entries by pathname
PkgArchive(descriptor, doc) ==
    (DescriptorPath :> Entry(descriptor, <<>>)) @@
    (<<"p.opf">> :> Entry(doc, <<>>)) @@
    (<<"c", "">> :> [directory |-> TRUE, doc |-> <<>>, text |-> <<>>])

\* a package document that passes every check
AnyDoc ==
    [root |-> "package", uid |-> "uid", version |-> "3.0",
     sections |->
        << Section("metadata",
              << Meta("dc:identifier", "uid", "urn:1"), Meta("dc:title", "", "T"),
                 Meta("dc:language", "", "en") >>),
           Section("manifest", CommonItems),
           Spine("", << ItemRef("ch", "") >>) >>]

\* the archives of the model: one for each package document behind a sound
\* descriptor, and archives whose descriptor is missing, a directory or unsound
PkgArchives ==
    { PkgArchive(<<Rootfile(<<"p.opf">>, PackageMediaType)>>, d) : d \in PackageDocs }
    \cup
    { PkgArchive(r, AnyDoc) :
        r \in { <<>>,
                <<Rootfile(<<>>, PackageMediaType)>>,
                <<Rootfile(<<"p.opf">>, "application/xml")>>,
                <<Rootfile(<<"p.opf">>, "application/xml"),
                  Rootfile(<<"p.opf">>, PackageMediaType)>>,
                <<Rootfile(<<"q.opf">>, PackageMediaType)>>,
                <<Rootfile(<<"c/">>, PackageMediaType)>> } }
    \cup
    { (<<"p.opf">> :> Entry(AnyDoc, <<>>)),
      (DescriptorPath :> [directory |-> TRUE, doc |-> <<>>, text |-> <<>>]) @@
      (<<"p.opf">> :> Entry(AnyDoc, <<>>)) }

-----------------------------------------------------------------------------
(* The container and the PackageDocument it is opening                     *)

\* the OCFZip on archive `archive`, and no PackageDocument yet
NewPkg(archive) ==
    [archive |-> archive, loaded |-> FALSE, pc |-> "idle", error |-> "",
     document |-> <<>>, package_url |-> container_root_url, ran |-> <<>>,
     uid |-> "", primary_identifier |-> "", version |-> "",
     metadata |-> NoMetadata, items_by_id |-> <<>>, itemrefs |-> <<>>,
     spine |-> <<>>, rendition |-> <<>>,
     k |-> 0, current_item |-> 0, has_linear |-> FALSE]

\* the checks of the constructor, in the order of its statements
Stages ==
    <<"root", "uid", "primary", "version", "metadata", "manifest", "spine",
      "rendition">>

\* a PackageDocument whose construction is over, as getResource finds it
Constructed == [NewPkg(<<>>) EXCEPT !.loaded = TRUE, !.pc = "done", !.ran = Stages]

-----------------------------------------------------------------------------
(* The state machine *)

NoResult ==
    [op |-> "none", url |-> <<>>, base |-> base_url, out |-> "", promise |-> 0,
     handle |-> 0, content |-> <<>>]

Init ==
    /\ manifest = Manifest
    /\ dirtree \in {Archive(w[1], w[2]) : w \in Worlds}
    /\ cached_resources = <<>>
    /\ tasks = <<>>
    /\ handles = <<>>
    /\ returned = {}
    /\ io = [reads |-> <<>>, parses |-> <<>>]
    /\ env = [ncalls |-> 0, nops |-> 0, last |-> NoResult]
    /\ pkg = Constructed

State ==
    [tasks |-> tasks, cache |-> cached_resources, reads |-> io.reads,
     returned |-> returned]

\* an exception leaves the async function of task tk: its promise is rejected
Reject(tk, why) == [tk EXCEPT !.pc = "rejected", !.error = why]

\* task t, just updated to tk, runs on until it suspends in an await, returns
\* its resource or throws: the state after that
Proceed(st, t, tk) ==
    The({
        IF nx.end
        THEN [st EXCEPT !.tasks[t] = [nx.task EXCEPT !.pc = "resolved"]]
        ELSE The({
            IF r.out \in {"OriginError", "NotFound"}
            THEN [r.st EXCEPT !.tasks[t] = Reject(nx.task, r.out)]
            ELSE [r.st EXCEPT !.tasks[t] = [nx.task EXCEPT !.pc = "await",
                                                           !.awaiting = r.promise]]
            : r \in {DoGet(st, nx.url, nx.base)}})
            : nx \in {NextCall(tk)}})

SetState(st) ==
    /\ tasks' = st.tasks
    /\ cached_resources' = st.cache
    /\ returned' = st.returned
    /\ io' = [io EXCEPT !.reads = st.reads]

\* the environment calls opf.getResource(c.url, c.base)
Call(c) ==
    /\ env.ncalls < MaxCalls
    /\ \E r \in {DoGet(State, c.url, c.base)} :
       /\ SetState(r.st)
       /\ env' = [env EXCEPT !.ncalls = @ + 1,
                             !.last = [NoResult EXCEPT !.op = "getResource",
                                                       !.url = c.url, !.base = c.base,
                                                       !.out = r.out,
                                                       !.promise = r.promise]]
    /\ UNCHANGED <<manifest, dirtree, handles, pkg>>

\* `await item.getContentBuffer()` completes for task t, and createResourceFromItem
\* runs on into BinaryResource's constructor or a create
ReadDone(t) ==
    /\ tasks[t].pc = "read"
    /\ LET tk == tasks[t]
           entry == dirtree[parseURL(manifest[tk.item].href).path]
           parsed == IF tk.kind = "html" THEN [tk EXCEPT !.doc = entry.doc]
                     ELSE IF tk.kind = "css"
                     THEN [tk EXCEPT !.content = entry.text, !.phase = "import",
                                     !.list = filtered_imports(entry.text)]
                     ELSE [tk EXCEPT !.content = entry.text, !.blob = <<entry.text>>]
       IN  \E resource \in {parsed} : \E st \in {Proceed(State, t, resource)} :
           /\ tasks' = st.tasks
           /\ cached_resources' = st.cache
           /\ returned' = st.returned
           /\ io' = [reads |-> st.reads,
                     parses |-> IF tk.kind = "binary" THEN io.parses
                                ELSE Bump(io.parses, tk.path)]
    /\ UNCHANGED <<manifest, dirtree, handles, env, pkg>>

\* a create that rewrites the reference and forgets resources.push(item)
RewriteNoPush(tk, dep, url) ==
    IF tk.kind = "html"
    THEN [tk EXCEPT !.doc[PosElement(tk)].attrs[PosAttribute(tk)] = <<HandleStr(url)>>,
                    !.pos = IF tk.pos.stage = "attr" THEN [@ EXCEPT !.stage = "xlink"]
                            ELSE [@ EXCEPT !.k = @ + 1, !.stage = "attr"]]
    ELSE [tk EXCEPT !.content = replace(@, tk.list[tk.pos.k], HandleStr(url)),
                    !.pos.k = @ + 1]

\* resources.push(item)
Push(tk, dep) == [tk EXCEPT !.resources = Append(@, dep)]

\* candidate.setAttribute(..., url) in HTMLResource.create, and the scan moves on
\* to the next reference
SetAttribute(tk, url) ==
    [tk EXCEPT !.doc[PosElement(tk)].attrs[PosAttribute(tk)] = <<HandleStr(url)>>,
               !.pos = IF tk.pos.stage = "attr" THEN [@ EXCEPT !.stage = "xlink"]
                       ELSE [@ EXCEPT !.k = @ + 1, !.stage = "attr"]]

\* the statements after `const item = await opf.getResource(...)` in a create
\* where they run in one piece (an attribute of a rule, a stylesheet reference):
\* the dependency is recorded and the reference rewritten to item.getURL()
Rewrite(tk, dep, url) ==
    IF tk.kind = "html"
    THEN [tk EXCEPT !.resources = Append(@, dep),
                    !.doc[PosElement(tk)].attrs[PosAttribute(tk)] = <<HandleStr(url)>>,
                    !.pos = IF tk.pos.stage = "attr" THEN [@ EXCEPT !.stage = "xlink"]
                            ELSE [@ EXCEPT !.k = @ + 1, !.stage = "attr"]]
    ELSE [tk EXCEPT !.resources = Append(@, dep),
                    !.content = replace(@, tk.list[tk.pos.k], HandleStr(url)),
                    !.pos.k = @ + 1]

\* a rejection that aborts every resolution still under way
PropagateToAll(ts, t) ==
    [i \in DOMAIN ts |-> IF i = t \/ ts[i].pc \in {"read", "await"}
                          THEN Reject(ts[i], "dependency") ELSE ts[i]]

\* `await` of a rejected promise throws in task t alone: the tasks after it
Propagate(ts, t) == [ts EXCEPT ![t] = Reject(ts[t], "dependency")]

\* the promise task t awaits has settled: t takes its resource, or its rejection.
\* For an xlink:href the statement is `setAttribute('xlink:href', await
\* item.getURL())`: the dependency is recorded and getURL() called, and the
\* create yields once more before it sets the attribute
Resume(t) ==
    /\ tasks[t].pc = "await"
    /\ tasks[tasks[t].awaiting].pc \in {"resolved", "rejected"}
    /\ LET p == tasks[t].awaiting IN
       IF tasks[p].pc = "rejected"
       THEN /\ tasks' = Propagate(tasks, t)
            /\ UNCHANGED <<cached_resources, returned, io, handles>>
       ELSE \E u \in {getURL(tasks[p], handles)} :
            IF tasks[t].kind = "html" /\ tasks[t].pos.stage = "xlink"
            THEN /\ tasks' = [tasks EXCEPT ![p] = u.task,
                                           ![t] = [Push(tasks[t], p) EXCEPT
                                                      !.pc = "tick"]]
                 /\ handles' = u.handles
                 /\ UNCHANGED <<cached_resources, returned, io>>
            ELSE \E rewritten \in {Rewrite(tasks[t], p, u.url)} :
                 \E st \in {Proceed([State EXCEPT !.tasks[p] = u.task], t,
                                     rewritten)} :
                     /\ SetState(st)
                     /\ handles' = u.handles
    /\ UNCHANGED <<manifest, dirtree, env, pkg>>

\* the `await item.getURL()` of task t is over: xlink:href is set to the handle
\* getURL() returned, and the create runs on
SetXlinkHref(t) ==
    /\ tasks[t].pc = "tick"
    /\ \E rewritten \in {SetAttribute(tasks[t],
                                      tasks[tasks[t].awaiting].object_url)} :
       \E st \in {Proceed(State, t, rewritten)} : SetState(st)
    /\ UNCHANGED <<manifest, dirtree, handles, env, pkg>>

Next ==
    \/ \E c \in TopCalls : Call(c)
    \/ \E t \in DOMAIN tasks : ReadDone(t)
    \/ \E t \in DOMAIN tasks : Resume(t)
    \/ \E t \in DOMAIN tasks : SetXlinkHref(t)

Spec == Init /\ [][Next]_vars

\* every archive read completes, and every continuation of a settled promise
\* is run: the host's I/O and its microtask queue
FairSpec ==
    /\ Spec
    /\ WF_vars(\E t \in DOMAIN tasks : ReadDone(t))
    /\ WF_vars(\E t \in DOMAIN tasks : Resume(t))
    /\ WF_vars(\E t \in DOMAIN tasks : SetXlinkHref(t))

-----------------------------------------------------------------------------
(* The consumer of resolved resources: getURL, getBlob, clean, and changes *)
(* to the public document tree of a markup resource                        *)

Resolved == {r \in DOMAIN tasks : tasks[r].pc = "resolved"}

\* a consumer calls resource.getURL()
EnvGetURL(r) ==
    /\ env.nops < MaxOps
    /\ \E u \in {getURL(tasks[r], handles)} :
       /\ tasks' = [tasks EXCEPT ![r] = u.task]
       /\ handles' = u.handles
       /\ env' = [env EXCEPT !.nops = @ + 1,
                             !.last = [NoResult EXCEPT !.op = "getURL", !.promise = r,
                                                       !.handle = u.url]]
    /\ UNCHANGED <<manifest, dirtree, cached_resources, returned, io, pkg>>

\* a consumer calls resource.getBlob()
EnvGetBlob(r) ==
    /\ env.nops < MaxOps
    /\ \E b \in {getBlob(tasks[r])} :
       /\ tasks' = [tasks EXCEPT ![r] = b.task]
       /\ env' = [env EXCEPT !.nops = @ + 1,
                             !.last = [NoResult EXCEPT !.op = "getBlob", !.promise = r,
                                                       !.content = b.content]]
    /\ UNCHANGED <<manifest, dirtree, cached_resources, returned, io, handles, pkg>>

\* a consumer calls resource.clean()
EnvClean(r) ==
    /\ env.nops < MaxOps
    /\ handles' = clean(tasks[r], handles)
    /\ env' = [env EXCEPT !.nops = @ + 1,
                          !.last = [NoResult EXCEPT !.op = "clean", !.promise = r]]
    /\ UNCHANGED <<manifest, dirtree, cached_resources, returned, io, tasks, pkg>>

\* a consumer changes resource.doc, the public tree of a markup resource:
\* it appends an element
EnvMutate(r) ==
    /\ env.nops < MaxOps
    /\ tasks[r].kind = "html"
    /\ tasks' = [tasks EXCEPT ![r].doc = Append(@, El("br", <<>>))]
    /\ env' = [env EXCEPT !.nops = @ + 1,
                          !.last = [NoResult EXCEPT !.op = "mutate", !.promise = r]]
    /\ UNCHANGED <<manifest, dirtree, cached_resources, returned, io, handles, pkg>>

\* the archives and the calls of the consumer's specification
InitOps ==
    /\ Init
    /\ dirtree \in {Archive(1, 5), Archive(2, 2)}

OpsCalls ==
    { [url |-> <<"ch.xhtml">>, base |-> base_url],
      [url |-> <<"i.png">>, base |-> base_url] }

NextOps ==
    \/ \E c \in OpsCalls : Call(c)
    \/ \E t \in DOMAIN tasks : ReadDone(t)
    \/ \E t \in DOMAIN tasks : Resume(t)
    \/ \E t \in DOMAIN tasks : SetXlinkHref(t)
    \/ \E r \in Resolved : EnvGetURL(r)
    \/ \E r \in Resolved : EnvGetBlob(r)
    \/ \E r \in Resolved : EnvClean(r)
    \/ \E r \in Resolved : EnvMutate(r)

SpecOps == InitOps /\ [][NextOps]_vars

-----------------------------------------------------------------------------
(* Opening a publication: OCFZip.load, OCFZip.getPackageDocument and the   *)
(* constructor of PackageDocument, one action for each of its checks and   *)
(* one for each turn of its loops over the spine                           *)

InitPkg ==
    /\ manifest = <<>>
    /\ dirtree = <<>>
    /\ cached_resources = <<>>
    /\ tasks = <<>>
    /\ handles = <<>>
    /\ returned = {}
    /\ io = [reads |-> <<>>, parses |-> <<>>]
    /\ env = [ncalls |-> 0, nops |-> 0, last |-> NoResult]
    /\ pkg \in {NewPkg(a) : a \in PkgArchives}

\* `throw new Error(message)`: getPackageDocument's promise is rejected
Throw(p, message) == [p EXCEPT !.pc = "failed", !.error = message]

\* the constructor comes to the statements of `stage`
Enter(p, stage) == [p EXCEPT !.ran = Append(@, stage)]

\* the first metadata, manifest or spine element of the document
FirstSection(tag) == querySelector(pkg.document.sections, tag)

\* OCFZip.load(): the index is built from the archive's entries
Load ==
    /\ ~pkg.loaded
    /\ dirtree' = pkg.archive
    /\ pkg' = [pkg EXCEPT !.loaded = TRUE]
    /\ UNCHANGED <<manifest, cached_resources, tasks, handles, returned, io, env>>

\* OCFZip.getPackageDocument() is called, no call being under way: a call on
\* its own, whatever became of the one before.  It runs to its first await, the
\* read of the descriptor, or throws
CallGetPackageDocument ==
    /\ pkg.pc \in {"idle", "failed", "done"}
    /\ \E error \in {checkDescriptor(dirtree)} :
       \E fresh \in {[NewPkg(pkg.archive) EXCEPT !.loaded = pkg.loaded]} :
         pkg' = IF error # "" THEN Throw(fresh, error)
                ELSE [fresh EXCEPT !.pc = "descriptor"]
    /\ manifest' = <<>>
    /\ UNCHANGED <<dirtree, cached_resources, tasks, handles, returned, io, env>>

\* `await rootfile.getData(containerWriter)` completes: the rootfile is checked
\* and the package document looked up in the index, and getPackageDocument runs
\* to its second await, the read of the package document, or throws
ReadDescriptor ==
    /\ pkg.pc = "descriptor"
    /\ \E r \in {resolveRootfile(dirtree[DescriptorPath].doc, dirtree)} :
         pkg' = IF r.error # "" THEN Throw(pkg, r.error)
                ELSE [pkg EXCEPT !.pc = "package", !.package_url = r.package_url]
    /\ UNCHANGED <<manifest, dirtree, cached_resources, tasks, handles, returned,
                   io, env>>

\* `await packageDocument.getData(packageWriter)` completes: the document is
\* parsed and the constructor called
ReadPackage ==
    /\ pkg.pc = "package"
    /\ pkg' = [pkg EXCEPT !.pc = "root",
                          !.document = dirtree[pkg.package_url.path].doc]
    /\ UNCHANGED <<manifest, dirtree, cached_resources, tasks, handles, returned,
                   io, env>>

\* `if (document.documentElement.tagName !== 'package')`
CheckRoot ==
    /\ pkg.pc = "root"
    /\ pkg' = IF pkg.document.root # "package"
              THEN Throw(Enter(pkg, "root"), "Invalid package document")
              ELSE [Enter(pkg, "root") EXCEPT !.pc = "uid"]
    /\ UNCHANGED <<manifest, dirtree, cached_resources, tasks, handles, returned,
                   io, env>>

\* a constructor that reads the unique identifier without checking it
CheckUidUnchecked ==
    /\ pkg.pc = "uid"
    /\ pkg' = [Enter(pkg, "uid") EXCEPT !.pc = "primary", !.uid = pkg.document.uid]
    /\ UNCHANGED <<manifest, dirtree, cached_resources, tasks, handles, returned,
                   io, env>>

\* the unique-identifier attribute
CheckUid ==
    /\ pkg.pc = "uid"
    /\ pkg' = IF pkg.document.uid = ""
              THEN Throw(Enter(pkg, "uid"),
                         "Missing unique-identifier attribute in package document")
              ELSE [Enter(pkg, "uid") EXCEPT !.pc = "primary",
                                             !.uid = pkg.document.uid]
    /\ UNCHANGED <<manifest, dirtree, cached_resources, tasks, handles, returned,
                   io, env>>

\* the element the unique identifier names
CheckPrimary ==
    /\ pkg.pc = "primary"
    /\ \E primary_identifier \in
              {queryPrimaryIdentifier(pkg.document.sections, pkg.uid)} :
         pkg' = IF primary_identifier = NoPkgAttrs
                THEN Throw(Enter(pkg, "primary"),
                           "Missing primary identifier in package document")
                ELSE IF primary_identifier.tag # "dc:identifier"
                THEN Throw(Enter(pkg, "primary"),
                           "Primary identifier must be a dc:identifier element")
                ELSE [Enter(pkg, "primary") EXCEPT
                        !.pc = "version",
                        !.primary_identifier = primary_identifier.text]
    /\ UNCHANGED <<manifest, dirtree, cached_resources, tasks, handles, returned,
                   io, env>>

\* the version attribute
CheckVersion ==
    /\ pkg.pc = "version"
    /\ pkg' = IF pkg.document.version = ""
              THEN Throw(Enter(pkg, "version"),
                         "Missing version attribute in package document")
              ELSE [Enter(pkg, "version") EXCEPT !.pc = "metadata",
                                                 !.version = pkg.document.version]
    /\ UNCHANGED <<manifest, dirtree, cached_resources, tasks, handles, returned,
                   io, env>>

\* the metadata element and #processMetadata
Metadata ==
    /\ pkg.pc = "metadata"
    /\ \E m \in {IF FirstSection("metadata") = NoPkgAttrs
                 THEN [NoMetadata EXCEPT
                         !.error = "Missing metadata element in package document"]
                 ELSE processMetadata(FirstSection("metadata"))} :
         pkg' = IF m.error # "" THEN Throw(Enter(pkg, "metadata"), m.error)
                ELSE [Enter(pkg, "metadata") EXCEPT !.pc = "manifest",
                                                    !.metadata = m]
    /\ UNCHANGED <<manifest, dirtree, cached_resources, tasks, handles, returned,
                   io, env>>

\* the manifest element and #processManifest
ProcessManifest ==
    /\ pkg.pc = "manifest"
    /\ \E m \in {IF FirstSection("manifest") = NoPkgAttrs
                 THEN [NoManifest EXCEPT
                         !.error = "Missing manifest element in package document"]
                 ELSE processManifest(FirstSection("manifest"), pkg.package_url)} :
         /\ pkg' = IF m.error # "" THEN Throw(Enter(pkg, "manifest"), m.error)
                   ELSE [Enter(pkg, "manifest") EXCEPT !.pc = "spine",
                                                       !.items_by_id = m.items_by_id]
         /\ manifest' = m.items
    /\ UNCHANGED <<dirtree, cached_resources, tasks, handles, returned, io, env>>

\* the spine element and #processSpine up to its loop over the itemrefs
StartSpine ==
    /\ pkg.pc = "spine"
    /\ \E spine \in {FirstSection("spine")} :
         pkg' = IF spine = NoPkgAttrs
                THEN Throw(Enter(pkg, "spine"),
                           "Missing spine element in package document")
                ELSE IF spine.toc # "" /\ ItemById(pkg.items_by_id, spine.toc) = 0
                THEN Throw(Enter(pkg, "spine"), "Invalid toc attribute in spine")
                ELSE IF ElementsByTag(spine.children, "itemref") = <<>>
                THEN Throw(Enter(pkg, "spine"), "Missing itemref elements in spine")
                ELSE [Enter(pkg, "spine") EXCEPT !.pc = "itemref", !.k = 1,
                                                 !.has_linear = FALSE]
    /\ UNCHANGED <<manifest, dirtree, cached_resources, tasks, handles, returned,
                   io, env>>

\* the itemref elements of the spine
ItemRefs == ElementsByTag(FirstSection("spine").children, "itemref")

\* `for (const itemref of itemrefs)`: the loop ends, or the next itemref is looked
\* up in the manifest
NextItemRef ==
    /\ pkg.pc = "itemref"
    /\ \E itemrefs \in {ItemRefs} :
         pkg' = IF pkg.k > Len(itemrefs)
                THEN IF ~pkg.has_linear
                     THEN Throw(pkg, "Missing linear itemref in spine")
                     ELSE [pkg EXCEPT !.pc = "rendition",
                                      !.spine = [itemrefs |-> pkg.itemrefs]]
                ELSE IF itemrefs[pkg.k].idref = ""
                THEN Throw(pkg, "Missing idref attribute in itemref")
                ELSE IF ItemById(pkg.items_by_id, itemrefs[pkg.k].idref) = 0
                THEN Throw(pkg, "Invalid idref attribute in itemref")
                ELSE [pkg EXCEPT
                        !.pc = "walk",
                        !.current_item =
                            ItemById(pkg.items_by_id, itemrefs[pkg.k].idref)]
    /\ UNCHANGED <<manifest, dirtree, cached_resources, tasks, handles, returned,
                   io, env>>

\* an itemref that counts as linear whatever its attribute
IsLinearAlways(linear) == TRUE

\* `linear === 'no' ? false : true`
IsLinear(linear) == linear # "no"

\* a walk that takes the end of a fallback chain for a content document
WalkTurnAcceptsEnd(p, items, itemref) ==
    IF p.current_item > 0 /\ items[p.current_item].mime \notin ContentDocumentTypes
       /\ items[p.current_item].fallback # ""
    THEN [p EXCEPT !.current_item =
                       ItemById(p.items_by_id, items[p.current_item].fallback)]
    ELSE [p EXCEPT !.pc = "itemref", !.k = @ + 1, !.current_item = 0,
                   !.has_linear = @ \/ IsLinear(itemref.linear),
                   !.itemrefs = Append(@, [idref |-> itemref.idref,
                                           item |-> ItemById(p.items_by_id,
                                                             itemref.idref),
                                           linear |-> IsLinear(itemref.linear)])]

\* one turn of `while (current_item)` for itemref, and the statements after the
\* loop when it ends: the constructor's state after them
WalkTurn(p, items, itemref) ==
    IF p.current_item > 0 /\ items[p.current_item].mime \in ContentDocumentTypes
    THEN [p EXCEPT !.pc = "itemref", !.k = @ + 1, !.current_item = 0,
                   !.has_linear = @ \/ IsLinear(itemref.linear),
                   !.itemrefs = Append(@, [idref |-> itemref.idref,
                                           item |-> ItemById(p.items_by_id,
                                                             itemref.idref),
                                           linear |-> IsLinear(itemref.linear)])]
    ELSE IF p.current_item > 0 /\ items[p.current_item].fallback # ""
    THEN [p EXCEPT !.current_item =
                       ItemById(p.items_by_id, items[p.current_item].fallback)]
    ELSE Throw(p, "No reference to EPUB content document in manifest chain")

\* the walk of the current itemref's fallback chain takes one turn
WalkFallback ==
    /\ pkg.pc = "walk"
    /\ pkg' = WalkTurn(pkg, manifest, ItemRefs[pkg.k])
    /\ UNCHANGED <<manifest, dirtree, cached_resources, tasks, handles, returned,
                   io, env>>

\* #processRendition, and the constructor returns
Rendition ==
    /\ pkg.pc = "rendition"
    /\ pkg' = [Enter(pkg, "rendition") EXCEPT
                 !.pc = "done",
                 !.rendition = processRendition(FirstSection("metadata"))]
    /\ UNCHANGED <<manifest, dirtree, cached_resources, tasks, handles, returned,
                   io, env>>

NextPkg ==
    \/ Load
    \/ CallGetPackageDocument
    \/ ReadDescriptor
    \/ ReadPackage
    \/ CheckRoot
    \/ CheckUid
    \/ CheckPrimary
    \/ CheckVersion
    \/ Metadata
    \/ ProcessManifest
    \/ StartSpine
    \/ NextItemRef
    \/ WalkFallback
    \/ Rendition

SpecPkg == InitPkg /\ [][NextPkg]_vars

\* the constructor is one synchronous call: it runs on while it can; the reads
\* of the archive complete, and the caller goes on calling
FairSpecPkg == SpecPkg /\ WF_vars(NextPkg)

-----------------------------------------------------------------------------
(* Claims *)

\* C1: single-flight.  All getResource calls (top-level or nested in a create)
\* whose URL resolves to one pathname return the same promise; a pathname has at
\* most one archive read and one parse; and every promise, pending ones
\* included, is the cache entry of its pathname from the call that made it.
C1_SingleFlight ==
    /\ \A a \in returned : \A b \in returned : a[1] = b[1] => a[2] = b[2]
    /\ \A p \in DOMAIN io.reads : io.reads[p] <= 1
    /\ \A p \in DOMAIN io.parses : io.parses[p] <= 1
    /\ \A t \in DOMAIN tasks :
          /\ tasks[t].path \in DOMAIN cached_resources
          /\ cached_resources[tasks[t].path] = t

\* a pending resolution that a create awaits and a top-level call got from the cache
C1_Witness ==
    \E t \in DOMAIN tasks : \E u \in DOMAIN tasks :
        /\ tasks[t].pc = "read"
        /\ tasks[u].pc = "await" /\ tasks[u].awaiting = t
        /\ env.last.op = "getResource" /\ env.last.out = "cached"
        /\ env.last.promise = t

\* C2: in every cache state a top-level getResource(url, baseUrl) returns a
\* resource only when a manifest item's href resolves to exactly the resolved
\* address, the resource being built from that item, and fails with NotFound
\* when no item matches exactly.
C2_ExactMatchOnly ==
    env.last.op = "getResource" =>
        LET resolved_url == NewURL(env.last.url, env.last.base)
            item == FindItem(manifest, resolved_url)
        IN  /\ env.last.out \in {"cached", "created"} =>
                  item # 0 /\ tasks[env.last.promise].item = item
            /\ (item = 0 /\ resolved_url.origin = package_url.origin) =>
                  env.last.out = "NotFound"

\* the pathname whose bytes task t reads
OwnPath(t) == parseURL(manifest[tasks[t].item].href).path

\* C3 as claimed: once a resolution has failed at one path, no resolution of
\* another path whose own manifest item exists and whose own bytes are readable
\* fails.
C3_OthersNeverFail ==
    \A t \in DOMAIN tasks :
        (/\ Readable(dirtree, OwnPath(t))
         /\ \E u \in DOMAIN tasks :
                tasks[u].path # tasks[t].path /\ tasks[u].pc = "rejected")
        => tasks[t].pc # "rejected"

\* C3 amended: a failure stays with its own path and with the resolutions that
\* await it.  A rejected promise is the cache entry of its own pathname only,
\* and a resolution is rejected only when its own bytes are unreadable, when
\* the reference it is resolving is cross-origin for getResource or names no
\* manifest item, or when the promise it awaits was rejected.
C3_FailureIsLocal ==
    /\ \A p \in DOMAIN cached_resources : tasks[cached_resources[p]].path = p
    /\ \A t \in DOMAIN tasks :
          tasks[t].pc = "rejected" =>
              LET nx == NextCall(tasks[t]) IN
              \/ ~Readable(dirtree, OwnPath(t))
              \/ /\ ~nx.end
                 /\ tasks[t].error \in {"NotFound", "OriginError"}
                 /\ \/ NewURL(nx.url, nx.base).origin # package_url.origin
                    \/ FindItem(manifest, NewURL(nx.url, nx.base)) = 0
              \/ /\ ~nx.end
                 /\ tasks[t].awaiting # 0
                 /\ tasks[tasks[t].awaiting].pc = "rejected"
                 /\ tasks[tasks[t].awaiting].path = NewURL(nx.url, nx.base).path

\* a resolution failed, and a resource of another path was resolved after it
C3_Witness ==
    \E t \in DOMAIN tasks : \E u \in DOMAIN tasks :
        /\ tasks[t].pc = "rejected" /\ tasks[t].error = "dependency"
        /\ u > t /\ tasks[u].pc = "resolved" /\ tasks[u].path # tasks[t].path

\* C4: a getResource call that fails because the resolved URL is cross-origin
\* or because no manifest item matches leaves the cache as it was, whether the
\* environment made the call or a create did.
C4_FailedCallKeepsCache ==
    [][ (\/ /\ env'.ncalls = env.ncalls + 1
            /\ env'.last.out \in {"OriginError", "NotFound"}
         \/ \E t \in DOMAIN tasks :
               /\ tasks[t].pc # "rejected"
               /\ tasks'[t].pc = "rejected"
               /\ tasks'[t].error \in {"OriginError", "NotFound"})
        => cached_resources' = cached_resources ]_vars

\* a call has just failed with NotFound while the cache holds entries
C4_Witness ==
    /\ env.last.op = "getResource" /\ env.last.out = "NotFound"
    /\ DOMAIN cached_resources # {}
    /\ \E t \in DOMAIN tasks : tasks[t].error = "NotFound"

\* C5: in the document of a constructed markup resource, every attribute a
\* rule matches (tag, attribute present, filters passed) is left as it was when
\* its value is cross-origin, and otherwise holds the handle of the resource
\* the cache has for the value's pathname, which is resolved and is in the
\* dependency list; and every dependency comes from a same-origin reference.
C5_MarkupRewritten ==
    \A t \in DOMAIN tasks :
        (tasks[t].kind = "html" /\ tasks[t].pc = "resolved") =>
            LET tk == tasks[t]
                orig == dirtree[OwnPath(t)].doc
            IN  /\ \A m \in DOMAIN tag_attribute_matchers : \A e \in DOMAIN orig :
                      LET rule == tag_attribute_matchers[m]
                          value == orig[e].attrs[rule.attribute]
                          target == NewURL(value, tk.base)
                      IN  (/\ orig[e].tag = rule.tag
                           /\ value # <<>>
                           /\ PassesFilters(rule, orig[e]))
                          => IF target.origin # package_url.origin
                             THEN tk.doc[e].attrs[rule.attribute] = value
                             ELSE /\ target.path \in DOMAIN cached_resources
                                  /\ LET dep == cached_resources[target.path] IN
                                     /\ tasks[dep].pc = "resolved"
                                     /\ tasks[dep].object_url # 0
                                     /\ tk.doc[e].attrs[rule.attribute]
                                            = <<HandleStr(tasks[dep].object_url)>>
                                     /\ \E i \in DOMAIN tk.resources :
                                            tk.resources[i] = dep
                /\ \A i \in DOMAIN tk.resources :
                      \E e \in DOMAIN orig : \E a \in DOMAIN orig[e].attrs :
                          /\ a \in {UrlAttrs[n] : n \in DOMAIN UrlAttrs}
                          /\ orig[e].attrs[a] # <<>>
                          /\ NewURL(orig[e].attrs[a], tk.base).origin = package_url.origin
                          /\ NewURL(orig[e].attrs[a], tk.base).path
                                 \in DOMAIN cached_resources
                          /\ cached_resources[NewURL(orig[e].attrs[a], tk.base).path]
                                 = tk.resources[i]

\* a markup resource with a stylesheet among its dependencies and an external
\* image left as it was
C5_Witness ==
    \E t \in DOMAIN tasks :
        /\ tasks[t].kind = "html" /\ tasks[t].pc = "resolved"
        /\ \E i \in DOMAIN tasks[t].resources :
               tasks[tasks[t].resources[i]].kind = "css"
        /\ \E e \in DOMAIN tasks[t].doc :
               tasks[t].doc[e].attrs["src"] = <<"http://x/", "e.png">>


\* the stylesheet text task t read, and the references the two passes of
\* CSSResource.create find in a text: its url(...) references, then its @import
\* targets not written as url(...)
OrigText(t) == dirtree[OwnPath(t)].text
CssRefs(text) == urls(text) \o filtered_imports(text)

\* the handle of the resource the cache has for the pathname ref names from
\* the stylesheet's own address; "" when the cache has none for it
HandleFor(ref, base) ==
    LET path == NewURL(ref, base).path IN
    IF path \in DOMAIN cached_resources
       /\ tasks[cached_resources[path]].object_url # 0
    THEN HandleStr(tasks[cached_resources[path]].object_url)
    ELSE ""

\* the same-origin references of the text of stylesheet t that name a pathname
\* another of its references names too
Repeated(t) ==
    LET refs == CssRefs(OrigText(t))
        base == tasks[t].base
    IN  {i \in DOMAIN refs :
            /\ ~IsExternal(refs[i], base)
            /\ \E j \in DOMAIN refs :
                   /\ j # i /\ ~IsExternal(refs[j], base)
                   /\ NewURL(refs[j], base).path = NewURL(refs[i], base).path}

\* C6: a stylesheet that references one same-origin pathname more than once is
\* constructed with one resolution (one read, one parse) of that pathname, and
\* in its resulting text each of these references is the handle of that
\* pathname's resource.
C6_RepeatedReference ==
    \A t \in DOMAIN tasks :
        (/\ tasks[t].kind = "css"
         /\ tasks[t].pc \in {"resolved", "rejected"}
         /\ Readable(dirtree, OwnPath(t))
         /\ Repeated(t) # {})
        => LET refs == CssRefs(OrigText(t))
               now == CssRefs(tasks[t].content)
           IN  /\ tasks[t].pc = "resolved"
               /\ Len(now) = Len(refs)
               /\ \A i \in Repeated(t) :
                      /\ HandleFor(refs[i], tasks[t].base) # ""
                      /\ now[i] = <<HandleFor(refs[i], tasks[t].base)>>
                      /\ io.reads[NewURL(refs[i], tasks[t].base).path] = 1

\* the cross-origin members of a list of references are where and what they
\* were in the original list
ExternalsKept(orig, now, base) ==
    /\ Len(now) = Len(orig)
    /\ \A i \in DOMAIN orig : IsExternal(orig[i], base) => now[i] = orig[i]

\* C7: in the text of a constructed stylesheet every cross-origin @import target
\* and every cross-origin url(...) reference is as it was in the input.
C7_ExternalVerbatim ==
    \A t \in DOMAIN tasks :
        (tasks[t].kind = "css" /\ tasks[t].pc = "resolved") =>
            /\ ExternalsKept(imports(OrigText(t)), imports(tasks[t].content),
                             tasks[t].base)
            /\ ExternalsKept(urls(OrigText(t)), urls(tasks[t].content), tasks[t].base)

\* C8: the url(...) pass resolves a reference against the stylesheet's own
\* address, as the @import pass does: the promise a stylesheet awaits is the
\* one of the pathname its reference names from that address.
C8_SameBaseInBothPasses ==
    \A t \in DOMAIN tasks :
        (tasks[t].kind = "css" /\ tasks[t].pc = "await") =>
            tasks[tasks[t].awaiting].path
                = NewURL(tasks[t].list[tasks[t].pos.k], tasks[t].base).path

\* C9: a resource has at most one handle, getURL() returns it, and it is
\* revoked at most once however often clean() is called.
C9_OneHandleRevokedOnce ==
    /\ \A r \in DOMAIN tasks :
          Cardinality({h \in DOMAIN handles : handles[h].owner = r}) <= 1
    /\ env.last.op = "getURL" =>
          /\ env.last.handle \in DOMAIN handles
          /\ handles[env.last.handle].owner = env.last.promise
    /\ \A h \in DOMAIN handles : handles[h].revoked <= 1

\* C10: the Blob a markup resource's getBlob() returns holds the serialization
\* of its document as it is at the call.
C10_BlobIsCurrent ==
    (env.last.op = "getBlob" /\ tasks[env.last.promise].kind = "html") =>
        env.last.content = serializeToString(tasks[env.last.promise].doc)

-----------------------------------------------------------------------------
(* Claims about the construction of a PackageDocument, under SpecPkg *)

IsPrefix(s, t) == Len(s) <= Len(t) /\ SubSeq(t, 1, Len(s)) = s

RECURSIVE ReachesContent(_, _)
\* item i of the manifest is, or reaches through at most n fallback links, an item
\* whose MIME type is a content document's
ReachesContent(i, n) ==
    /\ i > 0
    /\ \/ manifest[i].mime \in ContentDocumentTypes
       \/ /\ n > 0
          /\ manifest[i].fallback # ""
          /\ ReachesContent(ItemById(pkg.items_by_id, manifest[i].fallback), n - 1)

\* the document violates the check of a stage, said of the document alone
\* (and, for the spine, of the manifest built from it)
Violates(stage) ==
    LET doc == pkg.document
        md == FirstSection("metadata")
        mf == FirstSection("manifest")
        sp == FirstSection("spine")
        items == ElementsByTag(mf.children, "item")
    IN  CASE stage = "root" -> doc.root # "package"
          [] stage = "uid" -> doc.uid = ""
          [] stage = "primary" ->
                \/ ~\E e \in {MetadataChildren(doc.sections)[i] :
                                 i \in DOMAIN MetadataChildren(doc.sections)} :
                        e.id = doc.uid
                \/ \E i \in DOMAIN MetadataChildren(doc.sections) :
                      /\ MetadataChildren(doc.sections)[i].id = doc.uid
                      /\ MetadataChildren(doc.sections)[i].tag # "dc:identifier"
                      /\ \A j \in 1..(i - 1) :
                            MetadataChildren(doc.sections)[j].id # doc.uid
          [] stage = "version" -> doc.version = ""
          [] stage = "metadata" ->
                \/ md = NoPkgAttrs
                \/ \E tag \in {"dc:identifier", "dc:title", "dc:language"} :
                      \A i \in DOMAIN md.children : md.children[i].tag # tag
          [] stage = "manifest" ->
                \/ mf = NoPkgAttrs
                \/ \E i \in DOMAIN items :
                      \/ items[i].href = <<>>
                      \/ items[i].mime = ""
                      \/ items[i].id = ""
                      \/ Head(items[i].href) \in SchemeTok
                         /\ OriginOfScheme(Head(items[i].href)) # pkg.package_url.origin
          [] stage = "spine" ->
                \/ sp = NoPkgAttrs
                \/ sp.toc # "" /\ ItemById(pkg.items_by_id, sp.toc) = 0
                \/ ItemRefs = <<>>
                \/ \E k \in DOMAIN ItemRefs :
                      ~ReachesContent(ItemById(pkg.items_by_id, ItemRefs[k].idref),
                                      Len(manifest))
                \/ \A k \in DOMAIN ItemRefs : ItemRefs[k].linear = "no"
          [] OTHER -> FALSE

\* the failures each stage reports
StageErrors(stage) ==
    CASE stage = "root" -> {"Invalid package document"}
      [] stage = "uid" -> {"Missing unique-identifier attribute in package document"}
      [] stage = "primary" -> {"Missing primary identifier in package document",
                               "Primary identifier must be a dc:identifier element"}
      [] stage = "version" -> {"Missing version attribute in package document"}
      [] stage = "metadata" -> {"Missing metadata element in package document",
                                "Missing dc:identifier element in metadata",
                                "Missing dc:title element in metadata",
                                "Missing dc:language element in metadata"}
      [] stage = "manifest" -> {"Missing manifest element in package document",
                                "Missing href attribute in manifest item",
                                "Missing media-type attribute in manifest item",
                                "Missing id attribute in manifest item",
                                "Resource origin does not match package origin"}
      [] stage = "spine" -> {"Missing spine element in package document",
                             "Invalid toc attribute in spine",
                             "Missing itemref elements in spine",
                             "Missing idref attribute in itemref",
                             "Invalid idref attribute in itemref",
                             "No reference to EPUB content document in manifest chain",
                             "Missing linear itemref in spine"}
      [] OTHER -> {}

\* C11: the constructor runs its checks in the order root tag, unique-identifier,
\* primary identifier, version, metadata, manifest, spine, rendition, each at most
\* once; when construction fails, the stage that failed is the first one in this
\* order whose check the document violates and the failure is one of that stage;
\* a constructed document violates none; and a document without unique-identifier
\* fails with no manifest or spine processing done.
C11_FailFastOrder ==
    /\ IsPrefix(pkg.ran, Stages)
    /\ pkg.pc = "failed" /\ pkg.ran # <<>> =>
          /\ \A i \in 1..(Len(pkg.ran) - 1) : ~Violates(Stages[i])
          /\ Violates(Stages[Len(pkg.ran)])
          /\ pkg.error \in StageErrors(Stages[Len(pkg.ran)])
    /\ pkg.pc = "done" =>
          /\ pkg.ran = Stages
          /\ \A i \in DOMAIN Stages : ~Violates(Stages[i])
    /\ pkg.ran # <<>> /\ pkg.document.uid = "" =>
          /\ Len(pkg.ran) <= 2
          /\ manifest = <<>> /\ pkg.items_by_id = <<>>
          /\ pkg.k = 0 /\ pkg.itemrefs = <<>>

\* a document with the right root tag, no unique-identifier and no manifest
\* element has failed, at the unique-identifier check
C11_Witness ==
    /\ pkg.pc = "failed"
    /\ pkg.ran = <<"root", "uid">>
    /\ pkg.document.uid = ""
    /\ FirstSection("manifest") = NoPkgAttrs

\* the constructor has entered `stage` and has not failed in it; said of the
\* stages that are one step of the model
Passed(stage) ==
    /\ \E i \in DOMAIN pkg.ran : pkg.ran[i] = stage
    /\ ~(pkg.pc = "failed" /\ pkg.ran[Len(pkg.ran)] = stage)

\* the item elements of the document's manifest
ItemElements == ElementsByTag(FirstSection("manifest").children, "item")

\* an item element without href, media-type or id, or of another origin
Unsound(e) ==
    \/ e.href = <<>>
    \/ e.mime = ""
    \/ e.id = ""
    \/ Head(e.href) \in SchemeTok
       /\ OriginOfScheme(Head(e.href)) # pkg.package_url.origin

\* C12: when the manifest has an item without href, media-type or id, or whose
\* href is of another origin, construction fails at the manifest and no manifest
\* exists; otherwise no item is skipped: the manifest holds every item element,
\* in order, each of the package's origin.
C12_ManifestStrict ==
    "manifest" \in {pkg.ran[i] : i \in DOMAIN pkg.ran}
    /\ FirstSection("manifest") # NoPkgAttrs =>
        IF \E i \in DOMAIN ItemElements : Unsound(ItemElements[i])
        THEN /\ pkg.pc = "failed"
             /\ pkg.ran[Len(pkg.ran)] = "manifest"
             /\ pkg.error \in StageErrors("manifest")
             /\ manifest = <<>>
        ELSE /\ Passed("manifest")
             /\ Len(manifest) = Len(ItemElements)
             /\ \A i \in DOMAIN manifest :
                   /\ manifest[i].href = ItemElements[i].href
                   /\ manifest[i].mime = ItemElements[i].mime
                   /\ NewURL(manifest[i].href,
                          NewURL(<<"./">>, pkg.package_url)).origin
                          = pkg.package_url.origin

\* construction has failed on a manifest whose last item is of another origin
C12_Witness ==
    /\ pkg.pc = "failed"
    /\ pkg.ran # <<>> /\ pkg.ran[Len(pkg.ran)] = "manifest"
    /\ pkg.error = "Resource origin does not match package origin"
    /\ Len(ItemElements) = Len(CommonItems) + 1

\* the spine is built: #processSpine has returned
SpineBuilt == pkg.pc \in {"rendition", "done"}

\* C13: a spine without itemref fails; a spine none of whose itemrefs is linear
\* fails, with valid non-linear itemrefs too; an entry is non-linear exactly when
\* its linear attribute is "no"; so a spine that is built holds an entry for every
\* itemref and at least one linear entry.
C13_SpineLinear ==
    /\ SpineBuilt =>
          /\ ItemRefs # <<>>
          /\ Len(pkg.spine.itemrefs) = Len(ItemRefs)
          /\ \A k \in DOMAIN ItemRefs :
                pkg.spine.itemrefs[k].linear = (ItemRefs[k].linear # "no")
          /\ \E k \in DOMAIN ItemRefs : pkg.spine.itemrefs[k].linear
    /\ pkg.pc = "failed" /\ pkg.error = "Missing itemref elements in spine" =>
          ItemRefs = <<>>
    /\ pkg.pc = "failed" /\ pkg.error = "Missing linear itemref in spine" =>
          /\ Len(pkg.itemrefs) = Len(ItemRefs)
          /\ \A k \in DOMAIN ItemRefs : ItemRefs[k].linear = "no"
    /\ \A k \in DOMAIN pkg.itemrefs :
          pkg.itemrefs[k].linear = (ItemRefs[k].linear # "no")

\* construction has failed for want of a linear itemref on a spine of two valid
\* non-linear itemrefs
C13_Witness ==
    /\ pkg.pc = "failed"
    /\ pkg.error = "Missing linear itemref in spine"
    /\ Len(pkg.itemrefs) = 2

\* C14: every itemref of a spine under construction or built names a manifest item
\* that is, or reaches through fallback links, an item whose MIME type is a content
\* document's; and a failure for want of one is for an item that reaches none.
C14_FallbackReachesContent ==
    /\ \A k \in DOMAIN pkg.itemrefs :
          /\ pkg.itemrefs[k].item = ItemById(pkg.items_by_id, ItemRefs[k].idref)
          /\ ReachesContent(pkg.itemrefs[k].item, Len(manifest))
    /\ SpineBuilt => pkg.spine.itemrefs = pkg.itemrefs
    /\ pkg.pc = "failed"
       /\ pkg.error = "No reference to EPUB content document in manifest chain" =>
          ~ReachesContent(ItemById(pkg.items_by_id, ItemRefs[pkg.k].idref),
                          Len(manifest))

\* a document is constructed whose spine names an item that is no content
\* document and reaches one through two fallback links
C14_Witness ==
    /\ pkg.pc = "done"
    /\ \E k \in DOMAIN pkg.spine.itemrefs :
          /\ manifest[pkg.spine.itemrefs[k].item].mime \notin ContentDocumentTypes
          /\ manifest[pkg.spine.itemrefs[k].item].fallback = "fb"

\* C15: spine processing, once begun, ends: the spine is built or construction
\* has failed.
C15_SpineTerminates == (pkg.pc = "spine") ~> (pkg.pc \in {"rendition", "done", "failed"})

\* C16: the metadata of a document that is constructed holds at least one
\* identifier, one title and one language.
C16_MetadataComplete ==
    pkg.pc = "done" =>
        /\ Len(pkg.metadata.identifiers) >= 1
        /\ Len(pkg.metadata.titles) >= 1
        /\ Len(pkg.metadata.languages) >= 1

\* C17: in the manifest of a document that is constructed, every item of the
\* sequence is the mapping's value for its own id, and the mapping has as many ids
\* as the sequence has items.
C17_UniqueIds ==
    pkg.pc = "done" =>
        /\ \A i \in DOMAIN manifest : pkg.items_by_id[manifest[i].id] = i
        /\ Cardinality(DOMAIN pkg.items_by_id) = Len(manifest)

\* the index holds a descriptor that is no directory, whose first rootfile has a
\* full-path and the package media type, the full-path naming an entry of the
\* index that is no directory
Sound(tree) ==
    /\ DescriptorPath \in DOMAIN tree
    /\ ~tree[DescriptorPath].directory
    /\ tree[DescriptorPath].doc # <<>>
    /\ tree[DescriptorPath].doc[1].full_path # <<>>
    /\ tree[DescriptorPath].doc[1].media_type = "application/oebps-package+xml"
    /\ NewURL(tree[DescriptorPath].doc[1].full_path, container_root_url).path
           \in DOMAIN tree
    /\ ~tree[NewURL(tree[DescriptorPath].doc[1].full_path,
                    container_root_url).path].directory

\* the failures getPackageDocument reports itself
DescriptorErrors ==
    {"EPUB missing META-INF/container.xml",
     "Unexpected directory entry in META-INF/container.xml",
     "Missing rootfile element in META-INF/container.xml",
     "Missing full-path attribute in META-INF/container.xml",
     "Unexpected media-type in META-INF/container.xml",
     "Missing package document",
     "Unexpected directory entry in package document"}

\* C18: getPackageDocument() comes to call the constructor only on a sound
\* index, and then on the document the first rootfile names; a call that fails
\* by itself fails on an index that is not sound, with a failure of its own, and
\* no statement of a constructor runs in a call before its two reads are done;
\* before load() the index is empty, so a call then fails at once; and a call on
\* an archive without descriptor always fails.
C18_DescriptorChecked ==
    [][ /\ ~pkg.loaded => dirtree = <<>> /\ pkg'.pc \in {"idle", "failed"}
        /\ pkg.pc \in {"idle", "descriptor", "package"} => pkg.ran = <<>>
        /\ pkg.pc # "root" /\ pkg'.pc = "root" =>
              /\ pkg.pc = "package"
              /\ Sound(dirtree)
              /\ pkg'.document =
                     dirtree[NewURL(dirtree[DescriptorPath].doc[1].full_path,
                                    container_root_url).path].doc
        /\ pkg.pc # "failed" /\ pkg'.pc = "failed" /\ pkg'.ran = <<>> =>
              /\ ~Sound(dirtree)
              /\ pkg'.error \in DescriptorErrors
        /\ pkg.pc \in {"idle", "failed", "done"} /\ pkg' # pkg /\ pkg'.loaded = pkg.loaded =>
              /\ pkg'.ran = <<>>
              /\ pkg'.pc = IF DescriptorPath \in DOMAIN dirtree
                              /\ ~dirtree[DescriptorPath].directory
                           THEN "descriptor" ELSE "failed"
        /\ DescriptorPath \notin DOMAIN pkg.archive =>
              pkg'.pc \in {"idle", "failed"}
      ]_vars

\* getPackageDocument() has failed on a sound archive, called before load()
C18_Witness ==
    /\ pkg.pc = "failed"
    /\ pkg.ran = <<>>
    /\ ~pkg.loaded
    /\ Sound(pkg.archive)

-----------------------------------------------------------------------------
(* Claims about classification and the order of a scan, under Spec *)

\* the class the claim gives a MIME type of the model's manifest: by the type
\* without its outer blanks and in lower case
ClaimedKind(mime) ==
    IF mime \in {"application/xhtml+xml", "Application/XHTML+XML", "text/html",
                 "application/xhtml"} THEN "html"
    ELSE IF mime \in {"text/css", " Text/CSS ", "TEXT/CSS"} THEN "css"
    ELSE "binary"

\* the archive entry whose bytes task t reads
OwnEntry(t) == dirtree[OwnPath(t)]

\* C19: every resource is of the class its item's trimmed, lower-cased MIME type
\* gives: html for the three markup types, css for text/css, binary for every
\* other, the SVG types too; and a binary resource wraps the entry's bytes: it
\* awaits no dependency, has none, and its content is the bytes as read.
C19_ClassifiedByMime ==
    \A t \in DOMAIN tasks :
        /\ tasks[t].kind = ClaimedKind(manifest[tasks[t].item].mime)
        /\ manifest[tasks[t].item].mime \in ContentDocumentTypes
           /\ manifest[tasks[t].item].mime
                  \notin {"application/xhtml+xml", "application/xhtml", "text/html"}
           => tasks[t].kind = "binary"
        /\ tasks[t].kind = "binary" =>
              /\ tasks[t].pc # "await"
              /\ tasks[t].resources = <<>>
              /\ tasks[t].pc = "resolved" =>
                    /\ tasks[t].content = OwnEntry(t).text
                    /\ getBlob(tasks[t]).content = OwnEntry(t).text

\* the SVG image, whose bytes refer to /i.png, is resolved as a binary resource
\* and /i.png was not asked for
C19_Witness ==
    /\ \E t \in DOMAIN tasks :
          /\ manifest[tasks[t].item].mime = "image/svg+xml"
          /\ tasks[t].pc = "resolved"
          /\ tasks[t].kind = "binary"
          /\ "url(" \in {tasks[t].content[i] : i \in DOMAIN tasks[t].content}
    /\ <<"i.png">> \notin DOMAIN cached_resources

\* the resource task t starts its create with: the document as parsed from the
\* entry's bytes, nothing scanned, no dependency
Unscanned(t) ==
    [tasks[t] EXCEPT !.doc = OwnEntry(t).doc,
                     !.pos = [m |-> 1, k |-> 1, stage |-> "attr"],
                     !.resources = <<>>]

RECURSIVE ScanAlone(_, _)
\* the scan of markup resource tk when no getResource call but its own is made:
\* [ok, paths], the pathnames of its references in the order it resolves them, up
\* to the end (ok) or to the first that getResource does not find: one that is no
\* manifest item's address and whose pathname neither the resource itself nor an
\* earlier reference of the scan has put into the cache
ScanAlone(tk, paths) ==
    The({
        IF nx.end THEN [ok |-> TRUE, paths |-> paths]
        ELSE The({
            IF /\ FindItem(manifest, resolved_url) = 0
               /\ resolved_url.path \notin
                      {tk.path} \cup {paths[i] : i \in DOMAIN paths}
            THEN [ok |-> FALSE, paths |-> paths]
            ELSE ScanAlone(Rewrite(nx.task, 0, 9), Append(paths, resolved_url.path))
            : resolved_url \in {NewURL(nx.url, nx.base)}})
        : nx \in {NextCall(tk)}})

\* C20: the dependencies of a markup resource are those its scan finds when it
\* runs alone, ordered by rule, then by position in the document, whatever other
\* getResource calls come between its steps: a scan that resolves would have
\* resolved alone, with the same list, and a scan that fails on a reference would
\* have failed alone.
C20_ScanOrderDeterministic ==
    \A t \in DOMAIN tasks :
        tasks[t].kind = "html" =>
            /\ tasks[t].pc = "resolved" =>
                  /\ ScanAlone(Unscanned(t), <<>>).ok
                  /\ [i \in DOMAIN tasks[t].resources |->
                          tasks[tasks[t].resources[i]].path]
                         = ScanAlone(Unscanned(t), <<>>).paths
            /\ tasks[t].pc = "rejected" /\ tasks[t].error = "NotFound" =>
                  ~ScanAlone(Unscanned(t), <<>>).ok

\* the meta element e passes one at least of the three filters of the meta rule
PassesAnyMetaFilter(e) ==
    \/ TrimLower(e.attrs["name"]) \in MetaNames
    \/ TrimLower(e.attrs["property"]) \in MetaProperties
    \/ TrimLower(e.attrs["itemprop"]) \in MetaItemprops

\* C21: in the document of a constructed markup resource, the content attribute
\* of every meta element whose name, property or itemprop is in its set, and
\* whose content is same-origin, holds the handle of the resource the cache has
\* for its pathname, and that resource is a dependency.
C21_MetaAnyFilter ==
    \A t \in DOMAIN tasks :
        (tasks[t].kind = "html" /\ tasks[t].pc = "resolved") =>
            \A e \in DOMAIN OwnEntry(t).doc :
                LET el == OwnEntry(t).doc[e]
                    target == NewURL(el.attrs["content"], tasks[t].base)
                IN  (/\ el.tag = "meta"
                     /\ el.attrs["content"] # <<>>
                     /\ target.origin = package_url.origin
                     /\ PassesAnyMetaFilter(el))
                    => /\ target.path \in DOMAIN cached_resources
                       /\ tasks[t].doc[e].attrs["content"]
                              = <<HandleStr(tasks[cached_resources[target.path]].object_url)>>
                       /\ \E i \in DOMAIN tasks[t].resources :
                              tasks[t].resources[i] = cached_resources[target.path]

\* every promise getResource has returned is settled
AllSettled == \A n \in DOMAIN tasks : tasks[n].pc \in {"resolved", "rejected"}

\* C22: when every read completes, the promises getResource has returned are all
\* settled in the end, resolved or rejected, a document that refers to itself
\* included.
C22_EveryFutureSettles == (tasks # <<>>) ~> AllSettled

-----------------------------------------------------------------------------
(* A claim about handles after clean(), under SpecOps *)

\* C23: no getURL() call returns a handle that is revoked, and no create
\* rewrites a reference to the handle of a dependency when that handle is
\* revoked.
C23_NoRevokedHandle ==
    [][ /\ (env'.nops = env.nops + 1 /\ env'.last.op = "getURL") =>
               handles'[env'.last.handle].revoked = 0
        /\ \A t \in DOMAIN tasks :
               Len(tasks'[t].resources) > Len(tasks[t].resources) =>
                   handles'[tasks'[tasks'[t].resources[Len(tasks'[t].resources)]]
                                .object_url].revoked = 0
      ]_vars

=============================================================================
